---- MODULE Spec2Model ----
(***************************************************************************)
(* Model of the dice-notation engine's evaluator (src/src/eval.c) together *)
(* with the parts of the session object it mutates: the arena allocator    *)
(* (memory.c), the trace (trace.c), the error slot, the policy (dice.c)    *)
(* and the system random source (rng.c).                                   *)
(*                                                                         *)
(* One action is one call of the public API.  dice_evaluate is computed by *)
(* recursive operators that follow the C control flow statement by         *)
(* statement.  The random source is rand() of the C library, seeded from   *)
(* the clock: the values it will return during a call are an input of the  *)
(* call (src), and every value it did return is logged in ctx.drawn.       *)
(*                                                                         *)
(* A run is any number of dice_context_set_policy and dice_clear_error     *)
(* calls and of evaluations that fail validation, followed by one          *)
(* evaluation that rolls dice.                                             *)
(***************************************************************************)
EXTENDS Integers, Sequences, FiniteSets, TLC

VARIABLES
    ctx,     \* the dice_context_t
    result,  \* the dice_eval_result_t returned by the last dice_evaluate
    call     \* the dice_evaluate call just made: its node, the state it found

vars == <<ctx, result, call>>

(***************************************************************************)
(* Bounds of the model                                                     *)
(***************************************************************************)
MaxDice == 3        \* largest number of dice of a term
MaxSides == 2       \* largest number of sides of a term
SmallArena == 128   \* capacity of the small arena, in bytes

(***************************************************************************)
(* Program constants                                                       *)
(***************************************************************************)
max_rerolls == 100
LargeArena == 65536
ArenaAlign == 8
SizeofInt == 4
SizeofBool == 1
SizeofRollWithIndex == 8
SizeofTraceEntry == 56
DefaultMaxDiceCount == 1000
DefaultMaxSides == 1000000
DefaultMaxExplosionDepth == 10

NULL == -1

(***************************************************************************)
(* dice_policy_t                                                           *)
(***************************************************************************)
dice_default_policy ==
    [max_dice_count |-> DefaultMaxDiceCount,
     max_sides |-> DefaultMaxSides,
     max_explosion_depth |-> DefaultMaxExplosionDepth,
     allow_negative_dice |-> FALSE,
     strict_mode |-> FALSE]

(***************************************************************************)
(* The error slot                                                          *)
(***************************************************************************)
NoError == [message |-> "", code |-> 0, has_error |-> FALSE]

\* snprintf(ctx->error.message, ...); ctx->error.has_error = true;
SetError(c, msg) ==
    [c EXCEPT !.error.message = msg, !.error.has_error = TRUE]

(***************************************************************************)
(* Arena allocator                                                         *)
(***************************************************************************)
\* the size taken as it is, without rounding
AlignUp_NoRounding(size) == size

\* size = (size + 7) & ~7
AlignUp(size) == ((size + (ArenaAlign - 1)) \div ArenaAlign) * ArenaAlign

\* arena_alloc: the block's offset, or NULL with the error slot set
arena_alloc(c, size) ==
    LET sz == AlignUp(size) IN
    IF c.arena_used + sz > c.arena_size
    THEN [ctx |-> [c EXCEPT !.error = [message |-> "Arena allocator out of memory",
                                       code |-> -1,
                                       has_error |-> TRUE]],
          ptr |-> NULL]
    ELSE [ctx |-> [c EXCEPT !.arena_used = @ + sz],
          ptr |-> c.arena_used]

(***************************************************************************)
(* Trace                                                                   *)
(***************************************************************************)
\* add_trace_entry: link the entry at the tail, count++
add_trace_entry(c, entry) == [c EXCEPT !.trace = Append(@, entry)]

\* trace_atomic_roll_selected: an entry carved from the arena; nothing when
\* the arena is exhausted
trace_atomic_roll_selected(c, sides, res, selected) ==
    LET a == arena_alloc(c, SizeofTraceEntry) IN
    IF a.ptr = NULL
    THEN a.ctx
    ELSE add_trace_entry(a.ctx, [type |-> "TRACE_ATOMIC_ROLL",
                                 sides |-> sides,
                                 result |-> res,
                                 selected |-> selected])

trace_atomic_roll(c, sides, res) == trace_atomic_roll_selected(c, sides, res, FALSE)

(***************************************************************************)
(* Random source: rand() of the C library behind system_rng_roll           *)
(***************************************************************************)
\* The values rand() is going to return: pre, then head run times, then tail
\* forever.
NoSrc == [pre |-> <<>>, head |-> 0, run |-> 0, tail |-> 0]

rand(src, pos) ==
    IF pos < Len(src.pre) THEN src.pre[pos + 1]
    ELSE IF pos < Len(src.pre) + src.run THEN src.head
    ELSE src.tail

\* system_rng_roll: -1 for sides <= 0, else (rand() % sides) + 1
system_rng_roll(c, sides) ==
    IF sides <= 0
    THEN [ctx |-> c, value |-> -1]
    ELSE LET v == (rand(c.rng.src, c.rng.pos) % sides) + 1 IN
         [ctx |-> [c EXCEPT !.rng.pos = @ + 1, !.drawn = Append(@, v)],
          value |-> v]

(***************************************************************************)
(* evaluate_dice_filter                                                    *)
(***************************************************************************)
ComparisonOps ==
    {"DICE_OP_GT", "DICE_OP_LT", "DICE_OP_GTE", "DICE_OP_LTE", "DICE_OP_EQ", "DICE_OP_NEQ"}

\* the switch on selection->comparison_op (its default branch is ~ValidOp)
ValidOp(op) == op \in ComparisonOps

\* Matches with >= compared as > (an off-by-one in the DICE_OP_GTE case)
MatchesGteStrict(op, roll, comp_value) ==
    CASE op = "DICE_OP_GT" -> roll > comp_value
      [] op = "DICE_OP_LT" -> roll < comp_value
      [] op = "DICE_OP_GTE" -> roll > comp_value
      [] op = "DICE_OP_LTE" -> roll <= comp_value
      [] op = "DICE_OP_EQ" -> roll = comp_value
      [] op = "DICE_OP_NEQ" -> roll # comp_value
      [] OTHER -> FALSE

\* the result of the switch on selection->comparison_op
Matches(op, roll, comp_value) ==
    CASE op = "DICE_OP_GT" -> roll > comp_value
      [] op = "DICE_OP_LT" -> roll < comp_value
      [] op = "DICE_OP_GTE" -> roll >= comp_value
      [] op = "DICE_OP_LTE" -> roll <= comp_value
      [] op = "DICE_OP_EQ" -> roll = comp_value
      [] op = "DICE_OP_NEQ" -> roll # comp_value
      [] OTHER -> FALSE

\* for (i = 0; i < count; i++) rolls[i] = ctx->rng.roll(...), with the early
\* return on a negative roll
RECURSIVE RollAll(_, _, _, _, _)
RollAll(c, count, sides, i, rolls) ==
    IF i >= count
    THEN [ctx |-> c, rolls |-> rolls, returned |-> FALSE]
    ELSE LET r == system_rng_roll(c, sides) IN
         IF r.value < 0
         THEN [ctx |-> SetError(r.ctx, "RNG error during dice roll"),
               rolls |-> rolls, returned |-> TRUE]
         ELSE RollAll(r.ctx, count, sides, i + 1, Append(rolls, r.value))

\* one pass through the body of while (should_reroll && reroll_count < max_rerolls)
RerollBody(c, sides, selection, w) ==
    IF ~ValidOp(selection.comparison_op)
    THEN [w EXCEPT !.ctx = SetError(c, "Unknown comparison operator in reroll operation"),
                   !.returned = TRUE]
    ELSE IF Matches(selection.comparison_op, w.roll, selection.comparison_value)
    THEN LET r == system_rng_roll(trace_atomic_roll_selected(c, sides, w.roll, FALSE),
                                  sides)
         IN  IF r.value < 0
             THEN [w EXCEPT !.ctx = SetError(r.ctx, "RNG error during reroll"),
                            !.returned = TRUE]
             ELSE [w EXCEPT !.ctx = r.ctx, !.roll = r.value,
                            !.reroll_count = @ + 1]
    ELSE [w EXCEPT !.should_reroll = FALSE]

\* RerollContinues with a limit of one re-roll in the loop condition
RerollContinuesOnce(w) ==
    ~w.returned /\ w.should_reroll /\ w.reroll_count < 1

\* the loop condition
RerollContinues(w) ==
    ~w.returned /\ w.should_reroll /\ w.reroll_count < max_rerolls

\* at most fuel passes of the loop
RECURSIVE RerollPasses(_, _, _, _)
RerollPasses(sides, selection, w, fuel) ==
    IF fuel = 0 \/ ~RerollContinues(w)
    THEN w
    ELSE RerollPasses(sides, selection, RerollBody(w.ctx, sides, selection, w), fuel - 1)

\* the while loop of one die, run in blocks of ten passes (which keeps the
\* depth of the recursion at a tenth of max_rerolls plus ten)
RECURSIVE RerollBlocks(_, _, _)
RerollBlocks(sides, selection, w) ==
    IF ~RerollContinues(w)
    THEN w
    ELSE RerollBlocks(sides, selection, RerollPasses(sides, selection, w, 10))

RerollWhile(c, sides, selection, roll, reroll_count) ==
    RerollBlocks(sides, selection,
                 [ctx |-> c, roll |-> roll, reroll_count |-> reroll_count,
                  should_reroll |-> TRUE, returned |-> FALSE])

\* RerollLimitHit with > for >=
RerollLimitPassed(reroll_count) == reroll_count > max_rerolls

\* if (reroll_count >= max_rerolls) after the while loop
RerollLimitHit(reroll_count) == reroll_count >= max_rerolls

\* the for loop over the dice of a reroll term
RECURSIVE RerollLoop(_, _, _, _, _, _, _, _)
RerollLoop(c, count, sides, selection, i, rolls, selected, sum) ==
    IF i >= count
    THEN [ctx |-> c, rolls |-> rolls, selected |-> selected, sum |-> sum, returned |-> FALSE]
    ELSE LET w == RerollWhile(c, sides, selection, rolls[i + 1], 0) IN
         IF w.returned
         THEN [ctx |-> w.ctx, rolls |-> rolls, selected |-> selected, sum |-> 0,
               returned |-> TRUE]
         ELSE IF RerollLimitHit(w.reroll_count)
         THEN [ctx |-> SetError(w.ctx, "Maximum reroll limit exceeded"),
               rolls |-> rolls, selected |-> selected, sum |-> 0, returned |-> TRUE]
         ELSE RerollLoop(w.ctx, count, sides, selection, i + 1,
                         [rolls EXCEPT ![i + 1] = w.roll],
                         [selected EXCEPT ![i + 1] = TRUE],
                         sum + w.roll)

\* the for loop of a conditional term
RECURSIVE ConditionalLoop(_, _, _, _, _, _)
ConditionalLoop(c, count, selection, i, rolls, acc) ==
    IF i >= count
    THEN [ctx |-> c, rolls |-> rolls, selected |-> acc.selected, sum |-> acc.sum,
          returned |-> FALSE]
    ELSE IF ~ValidOp(selection.comparison_op)
    THEN [ctx |-> SetError(c, "Unknown comparison operator in conditional filter"),
          rolls |-> rolls, selected |-> acc.selected, sum |-> 0, returned |-> TRUE]
    ELSE IF Matches(selection.comparison_op, rolls[i + 1], selection.comparison_value)
    THEN ConditionalLoop(c, count, selection, i + 1, rolls,
                         [selected |-> [acc.selected EXCEPT ![i + 1] = TRUE],
                          sum |-> acc.sum + rolls[i + 1]])
    ELSE ConditionalLoop(c, count, selection, i + 1, rolls, acc)

\* a keep that is clamped to one die
ActualSelectCount_ClampToOne(count, selection) ==
    IF selection.is_drop_operation
    THEN IF selection.count >= count THEN 0 ELSE count - selection.count
    ELSE IF selection.count > 1 THEN 1 ELSE selection.count

\* drop N becomes keep count - N (0 when N >= count); keep N is clamped to count
ActualSelectCount(count, selection) ==
    IF selection.is_drop_operation
    THEN IF selection.count >= count THEN 0 ELSE count - selection.count
    ELSE IF selection.count > count THEN count ELSE selection.count

\* SwapNeeded with the two comparisons exchanged
SwapNeededReversed(select_high, vj, vi) ==
    IF select_high THEN vj < vi ELSE vj > vi

\* the comparison that triggers a swap in the two sorts
SwapNeeded(select_high, vj, vi) ==
    IF select_high THEN vj > vi ELSE vj < vi

\* for (j = i + 1; j < count; j++) if (...) swap(indexed_rolls[i], indexed_rolls[j])
RECURSIVE SortInner(_, _, _, _, _)
SortInner(a, i, j, count, select_high) ==
    IF j >= count
    THEN a
    ELSE SortInner(IF SwapNeeded(select_high, a[j + 1].value, a[i + 1].value)
                   THEN [a EXCEPT ![i + 1] = a[j + 1], ![j + 1] = a[i + 1]]
                   ELSE a,
                   i, j + 1, count, select_high)

\* for (i = 0; i < count - 1; i++)
RECURSIVE SortOuter(_, _, _, _)
SortOuter(a, i, count, select_high) ==
    IF i >= count - 1
    THEN a
    ELSE SortOuter(SortInner(a, i, i + 1, count, select_high), i + 1, count, select_high)

\* for (i = 0; i < actual_select_count; i++) selected[original_idx] = true; sum += value
RECURSIVE MarkSelected(_, _, _, _)
MarkSelected(indexed_rolls, actual_select_count, i, acc) ==
    IF i >= actual_select_count
    THEN acc
    ELSE MarkSelected(indexed_rolls, actual_select_count, i + 1,
                      [selected |-> [acc.selected EXCEPT
                                       ![indexed_rolls[i + 1].original_index + 1] = TRUE],
                       sum |-> acc.sum + indexed_rolls[i + 1].value])

\* the count-based branch (keep/drop)
CountBased(c, count, selection, rolls, selected) ==
    LET actual_select_count == ActualSelectCount(count, selection) IN
    IF actual_select_count < 0
    THEN [ctx |-> SetError(c, "Invalid selection count"),
          rolls |-> rolls, selected |-> selected, sum |-> 0, returned |-> TRUE]
    ELSE IF actual_select_count = 0
    THEN [ctx |-> c, rolls |-> rolls, selected |-> selected, sum |-> 0, returned |-> TRUE]
    ELSE LET a == arena_alloc(c, count * SizeofRollWithIndex) IN
         IF a.ptr = NULL
         THEN [ctx |-> SetError(a.ctx, "Failed to allocate memory for indexed rolls"),
               rolls |-> rolls, selected |-> selected, sum |-> 0, returned |-> TRUE]
         ELSE LET indexed_rolls == [k \in 1..count |->
                                      [value |-> rolls[k], original_index |-> k - 1]]
                  sorted == SortOuter(indexed_rolls, 0, count, selection.select_high)
                  m == MarkSelected(sorted, actual_select_count, 0,
                                    [selected |-> selected, sum |-> 0])
              IN  [ctx |-> a.ctx, rolls |-> rolls, selected |-> m.selected,
                   sum |-> m.sum, returned |-> FALSE]

\* for (i = 0; i < count; i++) trace_atomic_roll_selected(ctx, sides, rolls[i], selected[i])
RECURSIVE TraceAll(_, _, _, _, _, _)
TraceAll(c, count, sides, rolls, selected, i) ==
    IF i >= count
    THEN c
    ELSE TraceAll(trace_atomic_roll_selected(c, sides, rolls[i + 1], selected[i + 1]),
                  count, sides, rolls, selected, i + 1)

\* the branch on selection->is_conditional / is_reroll
FilterBranch(c, count, sides, selection, rolls, selected) ==
    IF selection.is_conditional /\ selection.is_reroll
    THEN RerollLoop(c, count, sides, selection, 0, rolls, selected, 0)
    ELSE IF selection.is_conditional
    THEN ConditionalLoop(c, count, selection, 0, rolls, [selected |-> selected, sum |-> 0])
    ELSE CountBased(c, count, selection, rolls, selected)

evaluate_dice_filter(c, count, sides, selection) ==
    LET a1 == arena_alloc(c, count * SizeofInt) IN
    IF a1.ptr = NULL
    THEN [ctx |-> SetError(a1.ctx, "Failed to allocate memory for dice rolls"), sum |-> 0]
    ELSE
    LET a2 == arena_alloc(a1.ctx, count * SizeofBool) IN
    IF a2.ptr = NULL
    THEN [ctx |-> SetError(a2.ctx, "Failed to allocate memory for selection tracking"),
          sum |-> 0]
    ELSE
    LET r == RollAll(a2.ctx, count, sides, 0, <<>>) IN
    IF r.returned
    THEN [ctx |-> r.ctx, sum |-> 0]
    ELSE
    LET b == FilterBranch(r.ctx, count, sides, selection, r.rolls,
                          [k \in 1..count |-> FALSE]) IN
    IF b.returned
    THEN [ctx |-> b.ctx, sum |-> b.sum]
    ELSE [ctx |-> TraceAll(b.ctx, count, sides, b.rolls, b.selected, 0), sum |-> b.sum]

(***************************************************************************)
(* dice_evaluate                                                           *)
(***************************************************************************)
Fail(c) == [ctx |-> c, value |-> 0, success |-> FALSE]

\* the loop of a basic term: roll, trace, add
RECURSIVE BasicLoop(_, _, _, _, _)
BasicLoop(c, count, sides, i, sum) ==
    IF i >= count
    THEN [ctx |-> c, value |-> sum, success |-> TRUE]
    ELSE LET r == system_rng_roll(c, sides) IN
         IF r.value < 0
         THEN Fail(SetError(r.ctx, "RNG error during dice roll"))
         ELSE BasicLoop(trace_atomic_roll(r.ctx, sides, r.value),
                        count, sides, i + 1, sum + r.value)

\* CountError with >= for > in the comparison with the policy's limit
CountErrorAtLimit(c, count) ==
    IF count <= 0 THEN "Dice count must be positive"
    ELSE IF count >= c.policy.max_dice_count THEN "Too many dice"
    ELSE ""

\* count <= 0, count > policy.max_dice_count
CountError(c, count) ==
    IF count <= 0 THEN "Dice count must be positive"
    ELSE IF count > c.policy.max_dice_count THEN "Too many dice"
    ELSE ""

\* sides <= 0, sides > policy.max_sides
SidesError(c, sides) ==
    IF sides <= 0 THEN "Dice sides must be positive"
    ELSE IF sides > c.policy.max_sides THEN "Too many sides"
    ELSE ""

\* a standard (non-custom) term once count and sides are validated
StandardDice(c, node, count, sides) ==
    IF node.dice_type = "DICE_DICE_FILTER"
    THEN LET f == evaluate_dice_filter(c, count, sides, node.selection) IN
         IF f.ctx.error.has_error
         THEN Fail(f.ctx)
         ELSE [ctx |-> f.ctx, value |-> f.sum, success |-> TRUE]
    ELSE BasicLoop(c, count, sides, 0, 0)

\* a null pointer to a node, and to a custom die
NullNode == [type |-> "NULL"]
NoDie == [name |-> <<"NULL">>, sides |-> <<>>]

\* system_rng_rand: 0 for max = 0, else rand() % max
system_rng_rand(c, max) ==
    IF max = 0
    THEN [ctx |-> c, value |-> 0]
    ELSE LET v == rand(c.rng.src, c.rng.pos) % max IN
         [ctx |-> [c EXCEPT !.rng.pos = @ + 1, !.drawn = Append(@, v)],
          value |-> v]

\* dice_lookup_custom_die: the first die of the registry with that name
RECURSIVE LookupFrom(_, _, _)
LookupFrom(registry, name, i) ==
    IF i > Len(registry) THEN NoDie
    ELSE IF registry[i].name = name THEN registry[i]
    ELSE LookupFrom(registry, name, i + 1)

\* the lookup that returns the latest definition of the name
RECURSIVE LookupLastFrom(_, _, _)
LookupLastFrom(registry, name, i) ==
    IF i < 1 THEN NoDie
    ELSE IF registry[i].name = name THEN registry[i]
    ELSE LookupLastFrom(registry, name, i - 1)

dice_lookup_custom_die_Latest(c, name) ==
    LookupLastFrom(c.custom_dice, name, Len(c.custom_dice))

dice_lookup_custom_die(c, name) == LookupFrom(c.custom_dice, name, 1)

\* the loop of a custom term: draw a side, trace its value, add it
RECURSIVE CustomLoop(_, _, _, _, _)
CustomLoop(c, die, count, i, sum) ==
    IF i >= count
    THEN [ctx |-> c, value |-> sum, success |-> TRUE]
    ELSE LET r == system_rng_rand(c, Len(die.sides))
             roll_value == die.sides[r.value + 1]
         IN  CustomLoop(trace_atomic_roll(r.ctx, Len(die.sides), roll_value),
                        die, count, i + 1, sum + roll_value)

\* side_count == 0, else the loop
CustomSides(c, die, count) ==
    IF Len(die.sides) = 0
    THEN Fail(SetError(c, "Custom die has no sides"))
    ELSE CustomLoop(c, die, count, 0, 0)

\* a custom term once count is validated: the inline die, or the named one
CustomDice(c, node, count) ==
    IF node.custom_die # NoDie
    THEN CustomSides(c, node.custom_die, count)
    ELSE IF node.custom_name # <<>>
    THEN LET custom_die == dice_lookup_custom_die(c, node.custom_name) IN
         IF custom_die = NoDie
         THEN Fail(SetError(c, "Unknown custom die"))
         ELSE CustomSides(c, custom_die, count)
    ELSE Fail(SetError(c, "Custom die has no definition or name"))

\* the quotient of C: truncated toward zero
TruncDiv(a, b) ==
    IF (a >= 0) = (b > 0) THEN (IF a >= 0 THEN a ELSE -a) \div (IF b > 0 THEN b ELSE -b)
    ELSE -((IF a >= 0 THEN a ELSE -a) \div (IF b > 0 THEN b ELSE -b))

\* division by zero taken for a success of value 0
ApplyBinary_DivZeroSucceeds(c, op, left, right) ==
    CASE op = "DICE_OP_ADD" -> [ctx |-> c, value |-> left + right, success |-> TRUE]
      [] op = "DICE_OP_SUB" -> [ctx |-> c, value |-> left - right, success |-> TRUE]
      [] op = "DICE_OP_MUL" -> [ctx |-> c, value |-> left * right, success |-> TRUE]
      [] op = "DICE_OP_DIV" ->
           [ctx |-> c, value |-> IF right = 0 THEN 0 ELSE TruncDiv(left, right),
            success |-> TRUE]
      [] OTHER -> Fail(SetError(c, "Unknown binary operator"))

\* the switch on binary_op.op, both operands evaluated
ApplyBinary(c, op, left, right) ==
    CASE op = "DICE_OP_ADD" -> [ctx |-> c, value |-> left + right, success |-> TRUE]
      [] op = "DICE_OP_SUB" -> [ctx |-> c, value |-> left - right, success |-> TRUE]
      [] op = "DICE_OP_MUL" -> [ctx |-> c, value |-> left * right, success |-> TRUE]
      [] op = "DICE_OP_DIV" ->
           IF right = 0
           THEN Fail(SetError(c, "Division by zero"))
           ELSE [ctx |-> c, value |-> TruncDiv(left, right), success |-> TRUE]
      [] OTHER -> Fail(SetError(c, "Unknown binary operator"))

\* a term without a count rolls one die
OneDie(c) == [ctx |-> c, value |-> 1, success |-> TRUE]

RECURSIVE dice_evaluate(_, _)
dice_evaluate(c, node) ==
    CASE node.type = "DICE_NODE_LITERAL" ->
           [ctx |-> c, value |-> node.value, success |-> TRUE]
      [] node.type = "DICE_NODE_BINARY_OP" ->
           LET left == dice_evaluate(c, node.left) IN
           IF ~left.success THEN left
           ELSE
           LET right == dice_evaluate(left.ctx, node.right) IN
           IF ~right.success THEN right
           ELSE ApplyBinary(right.ctx, node.op, left.value, right.value)
      [] node.type = "DICE_NODE_DICE_OP" ->
           LET count_result == IF node.count.type = "NULL"
                               THEN OneDie(c)
                               ELSE dice_evaluate(c, node.count) IN
           IF ~count_result.success THEN count_result
           ELSE IF CountError(count_result.ctx, count_result.value) # ""
           THEN Fail(SetError(count_result.ctx,
                              CountError(count_result.ctx, count_result.value)))
           ELSE IF node.dice_type = "DICE_DICE_CUSTOM"
           THEN CustomDice(count_result.ctx, node, count_result.value)
           ELSE
           LET sides_result == dice_evaluate(count_result.ctx, node.sides) IN
           IF ~sides_result.success THEN sides_result
           ELSE IF SidesError(sides_result.ctx, sides_result.value) # ""
           THEN Fail(SetError(sides_result.ctx,
                              SidesError(sides_result.ctx, sides_result.value)))
           ELSE StandardDice(sides_result.ctx, node, count_result.value,
                             sides_result.value)
      \* a null node: {0, false}, the error slot untouched
      [] OTHER -> Fail(c)

(***************************************************************************)
(* Nodes of the tree                                                       *)
(***************************************************************************)
Literal(v) == [type |-> "DICE_NODE_LITERAL", value |-> v]

\* a selection with every field zero
NullSelection ==
    [count |-> 0, select_high |-> FALSE, is_drop_operation |-> FALSE,
     is_conditional |-> FALSE, comparison_op |-> "NULL", comparison_value |-> 0,
     is_reroll |-> FALSE]

(***************************************************************************)
(* Parser (src/src/parser.c).  An expression is the sequence of its        *)
(* characters; a position is 1-based, and the character past the end is    *)
(* the terminating NUL.                                                    *)
(***************************************************************************)
SizeofAstNode == 64
SizeofSelection == 48
SizeofCustomDie == 24
SizeofCustomSide == 16

NUL == "NUL"
At(s, pos) == IF pos >= 1 /\ pos <= Len(s) THEN s[pos] ELSE NUL

Digits == {"0", "1", "2", "3", "4", "5", "6", "7", "8", "9"}
DigitValue(ch) ==
    CASE ch = "0" -> 0 [] ch = "1" -> 1 [] ch = "2" -> 2 [] ch = "3" -> 3
      [] ch = "4" -> 4 [] ch = "5" -> 5 [] ch = "6" -> 6 [] ch = "7" -> 7
      [] ch = "8" -> 8 [] ch = "9" -> 9

Letters ==
    {"A", "B", "C", "D", "E", "F", "G", "H", "I", "J", "K", "L", "M",
     "N", "O", "P", "Q", "R", "S", "T", "U", "V", "W", "X", "Y", "Z",
     "a", "b", "c", "d", "e", "f", "g", "h", "i", "j", "k", "l", "m",
     "n", "o", "p", "q", "r", "s", "t", "u", "v", "w", "x", "y", "z"}

is_digit(ch) == ch \in Digits
is_letter(ch) == ch \in Letters
isspace(ch) == ch \in {" ", "\t", "\n", "\r"}

\* tolower, on the letters of the modifiers
tolower(ch) ==
    CASE ch = "K" -> "k" [] ch = "H" -> "h" [] ch = "L" -> "l" [] OTHER -> ch

RECURSIVE skip_whitespace(_, _)
skip_whitespace(s, pos) ==
    IF isspace(At(s, pos)) THEN skip_whitespace(s, pos + 1) ELSE pos

\* while (is_digit(*pos)) value = value * 10 + (*pos - '0')
RECURSIVE ScanDigits(_, _, _)
ScanDigits(s, pos, value) ==
    IF is_digit(At(s, pos))
    THEN ScanDigits(s, pos + 1, value * 10 + DigitValue(At(s, pos)))
    ELSE [pos |-> pos, value |-> value]

\* create_node: a node carved from the arena, or NULL
create_node(c, type) == arena_alloc(c, SizeofAstNode)

\* what a parse function returns: the context, the position reached, the node
Parsed(c, pos, node) == [ctx |-> c, pos |-> pos, node |-> node]

parse_number(c, s, pos0) ==
    LET pos == skip_whitespace(s, pos0) IN
    IF ~is_digit(At(s, pos))
    THEN Parsed(c, pos, NullNode)
    ELSE LET d == ScanDigits(s, pos, 0)
             a == create_node(c, "DICE_NODE_LITERAL")
         IN  Parsed(a.ctx, d.pos,
                    IF a.ptr = NULL THEN NullNode
                    ELSE Literal(d.value))

\* the first loop of parse_custom_die_definition: the number of sides
RECURSIVE CountSides(_, _, _, _, _, _, _)
CountSides(s, start, temp_pos, side_count, brace_depth, in_quotes, expecting_value) ==
    LET ch == At(s, temp_pos) IN
    IF ch = NUL \/ ~(brace_depth > 0 \/ ch # "}")
    THEN IF ~expecting_value THEN side_count + 1 ELSE side_count
    ELSE IF ch = "\"" /\ (temp_pos = start \/ At(s, temp_pos - 1) # "\\")
    THEN CountSides(s, start, temp_pos + 1, side_count, brace_depth, ~in_quotes,
                    expecting_value /\ in_quotes)
    ELSE IF in_quotes
    THEN CountSides(s, start, temp_pos + 1, side_count, brace_depth, in_quotes,
                    expecting_value)
    ELSE IF ch = "{"
    THEN CountSides(s, start, temp_pos + 1, side_count, brace_depth + 1, in_quotes,
                    expecting_value)
    ELSE IF ch = "}"
    THEN CountSides(s, start, temp_pos + 1, side_count, brace_depth - 1, in_quotes,
                    expecting_value)
    ELSE IF ch = "," /\ brace_depth = 0 /\ ~expecting_value
    THEN CountSides(s, start, temp_pos + 1, side_count + 1, brace_depth, in_quotes,
                    TRUE)
    ELSE CountSides(s, start, temp_pos + 1, side_count, brace_depth, in_quotes,
                    expecting_value /\ isspace(ch))

\* while (*pos && *pos != '"') pos++
RECURSIVE ScanQuoted(_, _)
ScanQuoted(s, pos) ==
    IF At(s, pos) # NUL /\ At(s, pos) # "\"" THEN ScanQuoted(s, pos + 1) ELSE pos

\* a quoted label whose opening quote is at pos: its copy is carved from the
\* arena when the closing quote is there (the face keeps a NULL label when
\* the arena is exhausted)
ParseLabel(c, s, pos) ==
    LET close == ScanQuoted(s, pos + 1) IN
    IF At(s, close) = "\""
    THEN [ctx |-> arena_alloc(c, (close - (pos + 1)) + 1).ctx, pos |-> close + 1]
    ELSE [ctx |-> c, pos |-> close]

\* one face: a number with an optional label, or a label alone
ParseFace(c, s, pos, index) ==
    IF is_digit(At(s, pos)) \/ At(s, pos) = "-"
    THEN LET negative == At(s, pos) = "-"
             d == ScanDigits(s, IF negative THEN pos + 1 ELSE pos, 0)
             value == IF negative THEN -d.value ELSE d.value
             p1 == skip_whitespace(s, d.pos)
             p2 == skip_whitespace(s, p1 + 1)
         IN  IF At(s, p1) = ":"
             THEN IF At(s, p2) = "\""
                  THEN LET l == ParseLabel(c, s, p2) IN
                       [ctx |-> l.ctx, pos |-> l.pos, value |-> value, ok |-> TRUE]
                  ELSE [ctx |-> c, pos |-> p2, value |-> value, ok |-> TRUE]
             ELSE [ctx |-> c, pos |-> p1, value |-> value, ok |-> TRUE]
    ELSE IF At(s, pos) = "\""
    THEN LET l == ParseLabel(c, s, pos) IN
         [ctx |-> l.ctx, pos |-> l.pos, value |-> index + 1, ok |-> TRUE]
    ELSE [ctx |-> SetError(c, "Expected number or quoted string in custom die definition"),
          pos |-> pos, value |-> 0, ok |-> FALSE]

\* the second loop of parse_custom_die_definition: the faces
RECURSIVE ParseSides(_, _, _, _, _)
ParseSides(c, s, pos0, side_count, sides) ==
    IF At(s, pos0) = NUL \/ At(s, pos0) = "}"
    THEN [ctx |-> c, pos |-> pos0, sides |-> sides, ok |-> TRUE]
    ELSE
    LET pos == skip_whitespace(s, pos0) IN
    IF At(s, pos) = "}"
    THEN [ctx |-> c, pos |-> pos, sides |-> sides, ok |-> TRUE]
    ELSE
    LET f == ParseFace(c, s, pos, Len(sides)) IN
    IF ~f.ok
    THEN [ctx |-> f.ctx, pos |-> f.pos, sides |-> sides, ok |-> FALSE]
    ELSE
    LET added == IF Len(sides) < side_count THEN Append(sides, f.value) ELSE sides
        p == skip_whitespace(s, f.pos)
    IN  IF At(s, p) = ","
        THEN ParseSides(f.ctx, s, p + 1, side_count, added)
        ELSE IF At(s, p) # "}"
        THEN [ctx |-> SetError(f.ctx, "Expected ',' or '}' in custom die definition"),
              pos |-> p, sides |-> added, ok |-> FALSE]
        ELSE ParseSides(f.ctx, s, p, side_count, added)

\* parse_custom_die_definition: the die, or NULL
parse_custom_die_definition(c, s, pos0) ==
    LET brace == skip_whitespace(s, pos0) IN
    IF At(s, brace) # "{"
    THEN [ctx |-> c, pos |-> brace, die |-> NoDie]
    ELSE
    LET pos == skip_whitespace(s, brace + 1)
        side_count == CountSides(s, pos, pos, 0, 0, FALSE, TRUE)
    IN
    IF side_count = 0
    THEN [ctx |-> SetError(c, "Empty custom die definition"), pos |-> pos, die |-> NoDie]
    ELSE
    LET a1 == arena_alloc(c, SizeofCustomDie) IN
    IF a1.ptr = NULL
    THEN [ctx |-> a1.ctx, pos |-> pos, die |-> NoDie]
    ELSE
    LET a2 == arena_alloc(a1.ctx, side_count * SizeofCustomSide) IN
    IF a2.ptr = NULL
    THEN [ctx |-> a2.ctx, pos |-> pos, die |-> NoDie]
    ELSE
    LET r == ParseSides(a2.ctx, s, pos, side_count, <<>>) IN
    IF ~r.ok
    THEN [ctx |-> r.ctx, pos |-> r.pos, die |-> NoDie]
    ELSE IF At(s, r.pos) # "}"
    THEN [ctx |-> SetError(r.ctx, "Expected closing '}' in custom die definition"),
          pos |-> r.pos, die |-> NoDie]
    ELSE [ctx |-> r.ctx, pos |-> r.pos + 1, die |-> [name |-> <<>>, sides |-> r.sides]]

\* the characters after which a modifier has no number of its own
EndsModifier(ch) == ch \in {NUL, " ", "\t", "+", "-", "*", "/"}

\* the number of characters %lld prints for a value without a sign
RECURSIVE DecLen(_)
DecLen(v) == IF v < 10 THEN 1 ELSE 1 + DecLen(v \div 10)

\* the comparator after s or r: its operator and the position behind it
\* (r alone also knows the spelling ==)
Comparator(s, pos, letter) ==
    LET a == At(s, pos)
        b == At(s, pos + 1)
    IN  IF a = ">" /\ b = "=" THEN [ok |-> TRUE, op |-> "DICE_OP_GTE", pos |-> pos + 2]
        ELSE IF a = "<" /\ b = "=" THEN [ok |-> TRUE, op |-> "DICE_OP_LTE", pos |-> pos + 2]
        ELSE IF a = "<" /\ b = ">" THEN [ok |-> TRUE, op |-> "DICE_OP_NEQ", pos |-> pos + 2]
        ELSE IF letter = "r" /\ a = "=" /\ b = "="
        THEN [ok |-> TRUE, op |-> "DICE_OP_EQ", pos |-> pos + 2]
        ELSE IF a = "=" THEN [ok |-> TRUE, op |-> "DICE_OP_EQ", pos |-> pos + 1]
        ELSE IF a = ">" THEN [ok |-> TRUE, op |-> "DICE_OP_GT", pos |-> pos + 1]
        ELSE IF a = "<" THEN [ok |-> TRUE, op |-> "DICE_OP_LT", pos |-> pos + 1]
        ELSE IF is_digit(a) \/ EndsModifier(a)
        THEN [ok |-> TRUE, op |-> "DICE_OP_EQ", pos |-> pos]
        ELSE [ok |-> FALSE, op |-> "DICE_OP_EQ", pos |-> pos]

\* the spelling of the operator in original_syntax
OpStr(op, letter) ==
    CASE op \in {"DICE_OP_GT", "DICE_OP_LT"} -> 1
      [] op \in {"DICE_OP_GTE", "DICE_OP_LTE", "DICE_OP_NEQ"} -> 2
      [] op = "DICE_OP_EQ" -> IF letter = "r" THEN 0 ELSE 1

\* the s and r branches of parse_dice, behind the letter: the selection, or
\* NULL
ParseConditional(c, s, pos0, letter) ==
    LET cmp == Comparator(s, skip_whitespace(s, pos0), letter) IN
    IF ~cmp.ok
    THEN [ctx |-> SetError(c, "Expected comparison operator after modifier"),
          pos |-> cmp.pos, ok |-> FALSE, selection |-> NullSelection]
    ELSE
    LET pos == skip_whitespace(s, cmp.pos) IN
    IF ~is_digit(At(s, pos)) /\ ~EndsModifier(At(s, pos))
    THEN [ctx |-> SetError(c, "Expected numeric value after modifier"),
          pos |-> pos, ok |-> FALSE, selection |-> NullSelection]
    ELSE IF ~is_digit(At(s, pos)) /\ cmp.op # "DICE_OP_EQ"
    THEN [ctx |-> SetError(c, "Missing comparison value after comparison operator"),
          pos |-> pos, ok |-> FALSE, selection |-> NullSelection]
    ELSE
    LET comp_value == IF is_digit(At(s, pos))
                      THEN parse_number(c, s, pos)
                      ELSE LET a == create_node(c, "DICE_NODE_LITERAL") IN
                           Parsed(a.ctx, pos,
                                  IF a.ptr = NULL THEN NullNode
                                  ELSE Literal(1))
    IN
    IF comp_value.node.type = "NULL"
    THEN [ctx |-> SetError(comp_value.ctx, "Failed to parse comparison value"),
          pos |-> comp_value.pos, ok |-> FALSE, selection |-> NullSelection]
    ELSE
    LET a1 == arena_alloc(comp_value.ctx, SizeofSelection) IN
    IF a1.ptr = NULL
    THEN [ctx |-> a1.ctx, pos |-> comp_value.pos, ok |-> FALSE, selection |-> NullSelection]
    ELSE
    LET a2 == arena_alloc(a1.ctx, 1 + OpStr(cmp.op, letter)
                                    + DecLen(comp_value.node.value) + 1) IN
    IF a2.ptr = NULL
    THEN [ctx |-> a2.ctx, pos |-> comp_value.pos, ok |-> FALSE, selection |-> NullSelection]
    ELSE [ctx |-> a2.ctx, pos |-> comp_value.pos, ok |-> TRUE,
          selection |-> [NullSelection EXCEPT !.is_conditional = TRUE,
                                              !.is_reroll = (letter = "r"),
                                              !.comparison_op = cmp.op,
                                              !.comparison_value = comp_value.node.value]]

\* while (is_letter(*pos) || is_digit(*pos)) pos++
RECURSIVE ScanName(_, _)
ScanName(s, pos) ==
    IF is_letter(At(s, pos)) \/ is_digit(At(s, pos)) THEN ScanName(s, pos + 1) ELSE pos

\* a k, h or l that parse_dice takes for a modifier
KeepLetter(s, pos) ==
    /\ At(s, pos) \in {"k", "K", "h", "H", "l", "L"}
    /\ \/ is_digit(At(s, pos + 1))
       \/ At(s, pos + 1) \in {" ", "\t", "(", NUL, "+", "-", "*", "/"}

\* the dice term parse_dice has built before it looks for a modifier
BasicTerm(count, sides) ==
    [type |-> "DICE_NODE_DICE_OP", dice_type |-> "DICE_DICE_BASIC", count |-> count,
     sides |-> sides, selection |-> NullSelection, custom_die |-> NoDie,
     custom_name |-> <<>>]

CustomTerm(count, die, name) ==
    [type |-> "DICE_NODE_DICE_OP", dice_type |-> "DICE_DICE_CUSTOM", count |-> count,
     sides |-> NullNode, selection |-> NullSelection, custom_die |-> die,
     custom_name |-> name]

\* The functions of the grammar call one another; the result of a call is
\* handed to the operator that continues the function.
RECURSIVE parse_primary(_, _, _), parse_unary(_, _, _),
          ProductLoop(_, _, _, _), SumLoop(_, _, _, _)

\* a literal 1 carved from the arena: the default number of a modifier
DefaultOne(c, pos) ==
    LET a == create_node(c, "DICE_NODE_LITERAL") IN
    Parsed(a.ctx, pos, IF a.ptr = NULL THEN NullNode ELSE Literal(1))

\* the count after k, h or l: a group, a number, or the default
KeepCount(c, s, q) ==
    IF At(s, q) = "(" THEN parse_primary(c, s, q)
    ELSE IF is_digit(At(s, q)) THEN parse_number(c, s, q)
    ELSE DefaultOne(c, q)

\* the k, h and l branch of parse_dice, the count parsed
KeepSelection(op1, node, select_count) ==
    IF select_count.node.type = "NULL"
    THEN Parsed(SetError(select_count.ctx, "Failed to parse selection count"),
                select_count.pos, NullNode)
    ELSE
    LET a1 == arena_alloc(select_count.ctx, SizeofSelection) IN
    IF a1.ptr = NULL
    THEN Parsed(a1.ctx, select_count.pos, NullNode)
    ELSE IF select_count.node.type # "DICE_NODE_LITERAL"
    THEN Parsed(SetError(a1.ctx, "Expression selection counts not yet implemented"),
                select_count.pos, NullNode)
    ELSE
    LET a2 == arena_alloc(a1.ctx, 2) IN
    IF a2.ptr = NULL
    THEN Parsed(a2.ctx, select_count.pos, NullNode)
    ELSE Parsed(a2.ctx, select_count.pos,
                [node EXCEPT !.dice_type = "DICE_DICE_FILTER",
                             !.selection =
                                 [NullSelection EXCEPT
                                     !.count = select_count.node.value,
                                     !.select_high = (op1 \in {"k", "h"}),
                                     !.is_drop_operation = FALSE,
                                     !.comparison_op = "DICE_OP_ADD"]])

\* the s and r branches of parse_dice, the selection parsed
ConditionalSelection(node, m) ==
    IF ~m.ok
    THEN Parsed(m.ctx, m.pos, NullNode)
    ELSE Parsed(m.ctx, m.pos, [node EXCEPT !.dice_type = "DICE_DICE_FILTER",
                                           !.selection = m.selection])

\* the modifiers of parse_dice, the term built and pos behind it
ParseModifier(c, s, pos0, node) ==
    LET pos == skip_whitespace(s, pos0) IN
    IF KeepLetter(s, pos)
    THEN KeepSelection(tolower(At(s, pos)), node,
                       KeepCount(c, s, skip_whitespace(s, pos + 1)))
    ELSE IF At(s, pos) \in {"s", "S", "r", "R"}
    THEN ConditionalSelection(node,
             ParseConditional(c, s, pos + 1,
                              IF At(s, pos) \in {"s", "S"} THEN "s" ELSE "r"))
    ELSE Parsed(c, pos, node)

\* an inline die after the d
InlineTerm(count, d) ==
    IF d.die = NoDie
    THEN Parsed(d.ctx, d.pos, NullNode)
    ELSE Parsed(d.ctx, d.pos, CustomTerm(count, d.die, <<>>))

\* a named die after the d: its name copied into the arena
NamedTerm(c, s, pos, e, count) ==
    LET a == arena_alloc(c, (e - pos) + 1) IN
    IF a.ptr = NULL
    THEN Parsed(a.ctx, e, NullNode)
    ELSE Parsed(a.ctx, e, CustomTerm(count, NoDie, SubSeq(s, pos, e - 1)))

\* a number of sides after the d
StandardTerm(count, sides) ==
    IF sides.node.type = "NULL"
    THEN Parsed(SetError(sides.ctx, "Expected number of sides after 'd'"),
                sides.pos, NullNode)
    ELSE Parsed(sides.ctx, sides.pos, BasicTerm(count, sides.node))

\* what follows the d of parse_dice: an inline die, a name, or a number
ParseSidesOf(c, s, pos, count) ==
    IF At(s, pos) = "{"
    THEN InlineTerm(count, parse_custom_die_definition(c, s, pos))
    ELSE IF is_letter(At(s, pos))
    THEN NamedTerm(c, s, pos, ScanName(s, pos), count)
    ELSE StandardTerm(count, parse_number(c, s, pos))

\* the term, then its modifier
WithModifier(s, term) ==
    IF term.node.type = "NULL" THEN term
    ELSE ParseModifier(term.ctx, s, term.pos, term.node)

\* parse_dice behind the optional count
DiceAfterCount(s, start, dpos, count) ==
    IF At(s, dpos) \notin {"d", "D"}
    THEN Parsed(count.ctx, start, NullNode)
    ELSE
    LET a == create_node(count.ctx, "DICE_NODE_DICE_OP") IN
    IF a.ptr = NULL
    THEN Parsed(a.ctx, skip_whitespace(s, dpos + 1), NullNode)
    ELSE WithModifier(s, ParseSidesOf(a.ctx, s, skip_whitespace(s, dpos + 1), count.node))

\* the optional count of parse_dice and the position of the d
CountOf(c, s, start) ==
    IF is_digit(At(s, start))
    THEN parse_number(c, s, start)
    ELSE Parsed(c, start, NullNode)

DPos(s, start, count) ==
    IF is_digit(At(s, start)) THEN skip_whitespace(s, count.pos) ELSE start

DiceFrom(s, start, count) == DiceAfterCount(s, start, DPos(s, start, count), count)

parse_dice(c, s, pos0) ==
    DiceFrom(s, skip_whitespace(s, pos0), CountOf(c, s, skip_whitespace(s, pos0)))

\* a binary node carved from the arena, or NULL
BinaryNode(c, pos, op, left, right) ==
    LET a == create_node(c, "DICE_NODE_BINARY_OP") IN
    Parsed(a.ctx, pos,
           IF a.ptr = NULL THEN NullNode
           ELSE [type |-> "DICE_NODE_BINARY_OP", op |-> op, left |-> left,
                 right |-> right])

\* unary minus is 0 - operand, unary plus the operand
UnaryOf(sign, operand) ==
    IF operand.node.type = "NULL" \/ sign = "+"
    THEN operand
    ELSE LET zero == create_node(operand.ctx, "DICE_NODE_LITERAL") IN
         IF zero.ptr = NULL
         THEN Parsed(zero.ctx, operand.pos, NullNode)
         ELSE BinaryNode(zero.ctx, operand.pos, "DICE_OP_SUB", Literal(0), operand.node)

parse_unary(c, s, pos0) ==
    LET pos == skip_whitespace(s, pos0) IN
    IF At(s, pos) \in {"+", "-"}
    THEN UnaryOf(At(s, pos), parse_unary(c, s, pos + 1))
    ELSE parse_primary(c, s, pos)

\* the right operand of a binary operator parsed: the node, or NULL
OperandThen(op, left, right) ==
    IF right.node.type = "NULL"
    THEN Parsed(SetError(right.ctx, "Expected expression after operator"),
                right.pos, NullNode)
    ELSE BinaryNode(right.ctx, right.pos, op, left, right.node)

ProductFrom(s, left) ==
    IF left.node.type = "NULL" THEN left
    ELSE ProductLoop(left.ctx, s, left.pos, left.node)

\* the loop of parse_product
ProductLoop(c, s, pos0, left) ==
    LET pos == skip_whitespace(s, pos0) IN
    IF At(s, pos) \notin {"*", "/"}
    THEN Parsed(c, pos, left)
    ELSE ProductFrom(s, OperandThen(IF At(s, pos) = "*" THEN "DICE_OP_MUL"
                                    ELSE "DICE_OP_DIV",
                                    left, parse_unary(c, s, pos + 1)))

parse_product(c, s, pos) == ProductFrom(s, parse_unary(c, s, pos))

SumFrom(s, left) ==
    IF left.node.type = "NULL" THEN left
    ELSE SumLoop(left.ctx, s, left.pos, left.node)

\* the loop of parse_sum
SumLoop(c, s, pos0, left) ==
    LET pos == skip_whitespace(s, pos0) IN
    IF At(s, pos) \notin {"+", "-"}
    THEN Parsed(c, pos, left)
    ELSE SumFrom(s, OperandThen(IF At(s, pos) = "+" THEN "DICE_OP_ADD"
                                ELSE "DICE_OP_SUB",
                                left, parse_product(c, s, pos + 1)))

\* parse_expression is parse_sum
parse_sum(c, s, pos) == SumFrom(s, parse_product(c, s, pos))

\* the closing parenthesis of parse_group
GroupClose(s, expr) ==
    IF expr.node.type = "NULL" THEN expr
    ELSE LET p == skip_whitespace(s, expr.pos) IN
         IF At(s, p) # ")"
         THEN Parsed(SetError(expr.ctx, "Expected closing parenthesis"), p, NullNode)
         ELSE Parsed(expr.ctx, p + 1, expr.node)

parse_group(c, s, pos0) ==
    LET pos == skip_whitespace(s, pos0) IN
    IF At(s, pos) # "("
    THEN Parsed(c, pos, NullNode)
    ELSE GroupClose(s, parse_sum(c, s, pos + 1))

\* the fallback of parse_primary: parse_dice found no term and the error flag
\* is not set
NumberIfNone(s, pos, d) ==
    IF d.node.type = "NULL" /\ ~d.ctx.error.has_error
    THEN parse_number(d.ctx, s, pos)
    ELSE d

\* the end of parse_primary: an error unless there is a node or the error
\* flag is set already
ExpectedPrimary(r) ==
    IF r.node.type = "NULL" /\ ~r.ctx.error.has_error
    THEN Parsed(SetError(r.ctx, "Expected number, dice expression, or parenthesized expression"),
                r.pos, NullNode)
    ELSE r

PrimaryAt(c, s, pos) ==
    ExpectedPrimary(IF At(s, pos) = "(" THEN parse_group(c, s, pos)
                    ELSE IF is_digit(At(s, pos)) \/ At(s, pos) \in {"d", "D"}
                    THEN NumberIfNone(s, pos, parse_dice(c, s, pos))
                    ELSE Parsed(c, pos, NullNode))

parse_primary(c, s, pos0) == PrimaryAt(c, s, skip_whitespace(s, pos0))

\* the end of dice_parse: nothing but white space may follow the expression
TrailingCheck(s, r) ==
    IF r.node.type # "NULL" /\ At(s, skip_whitespace(s, r.pos)) # NUL
    THEN Parsed(SetError(r.ctx, "Unexpected characters at end of expression"),
                skip_whitespace(s, r.pos), NullNode)
    ELSE r

\* dice_parse: the tree, or NULL
dice_parse(c, s) == TrailingCheck(s, parse_sum(c, s, 1))

\* dice_roll_expression: {0, false} when dice_parse returns NULL, else
\* dice_evaluate of the tree
EvaluateParsed(ast) ==
    IF ast.node.type = "NULL" THEN Fail(ast.ctx)
    ELSE dice_evaluate(ast.ctx, ast.node)

dice_roll_expression(c, s) == EvaluateParsed(dice_parse(c, s))

(***************************************************************************)
(* Inputs                                                                  *)
(***************************************************************************)
\* what parse_dice builds for k/h/l (and the drop forms the evaluator handles)
CountSelections(count) ==
    {[NullSelection EXCEPT !.count = n, !.select_high = h, !.is_drop_operation = d,
                           !.comparison_op = "DICE_OP_ADD"] :
        n \in 0..(count + 1), h \in BOOLEAN, d \in BOOLEAN}

\* what parse_dice builds for s and r
ConditionalSelections(reroll) ==
    {[NullSelection EXCEPT !.is_conditional = TRUE, !.is_reroll = reroll,
                           !.comparison_op = op, !.comparison_value = t] :
        op \in ComparisonOps, t \in 1..MaxSides}

DiceNode(dice_type, count, sides, selection) ==
    [type |-> "DICE_NODE_DICE_OP", dice_type |-> dice_type,
     count |-> Literal(count), sides |-> Literal(sides), selection |-> selection]

\* the dice terms of at most budget dice
Nodes(budget) ==
    UNION {
        {DiceNode("DICE_DICE_BASIC", n, s, NullSelection)}
        \cup {DiceNode("DICE_DICE_FILTER", n, s, sel) :
                sel \in CountSelections(n) \cup ConditionalSelections(FALSE)
                        \cup ConditionalSelections(TRUE)}
        : n \in 0..budget, s \in 0..MaxSides}

IsReroll(node) == node.selection.is_conditional /\ node.selection.is_reroll

\* the streams rand() may produce during the evaluation of node: every choice
\* of the first count values followed by one value forever, and, for a re-roll
\* term, count equal values followed by max_rerolls - 2 or max_rerolls - 1
\* times one value and then the next value forever
ShortSrcs(count, sides, tails) ==
    {[pre |-> p, head |-> t, run |-> 0, tail |-> t] :
        p \in [1..count -> 0..(sides - 1)], t \in tails}

LongSrcs(count, sides) ==
    {[pre |-> [i \in 1..count |-> v], head |-> h, run |-> r, tail |-> (h + 1) % sides] :
        v \in 0..(sides - 1), h \in 0..(sides - 1),
        r \in {max_rerolls - 2, max_rerolls - 1}}

Srcs(node) ==
    LET n == node.count.value
        s == node.sides.value
    IN  IF n < 1 \/ s < 1 THEN {NoSrc}
        ELSE IF IsReroll(node) THEN ShortSrcs(n, s, 0..(s - 1)) \cup LongSrcs(n, s)
        ELSE ShortSrcs(n, s, {0})

\* the policies a caller installs: the default one, and one whose limits are
\* inside the bounds of the model
Policies ==
    {dice_default_policy,
     [dice_default_policy EXCEPT !.max_dice_count = MaxDice - 1,
                                 !.max_sides = MaxSides - 1]}

(***************************************************************************)
(* State machine                                                           *)
(***************************************************************************)
NoRng == [src |-> NoSrc, pos |-> 0]
NoNode == Literal(0)

\* no dice_evaluate call is the most recent call
NoCall ==
    [op |-> "none", node |-> NoNode, trace0 |-> 0, drawn0 |-> 0,
     err0 |-> FALSE, arena0 |-> 0]

Called(node) ==
    [op |-> "evaluate", node |-> node, trace0 |-> Len(ctx.trace),
     drawn0 |-> Len(ctx.drawn), err0 |-> ctx.error.has_error,
     arena0 |-> ctx.arena_used]

\* dice_context_create(arena_size, features)
Init ==
    /\ ctx \in {[arena_size |-> a, arena_used |-> 0, error |-> NoError,
                 policy |-> dice_default_policy, trace |-> <<>>, rng |-> NoRng,
                 drawn |-> <<>>] : a \in {SmallArena, LargeArena}}
    /\ result = [value |-> 0, success |-> FALSE]
    /\ call = NoCall

\* dice_evaluate(ctx, node), the caller having done something else since the
\* last evaluation; a run ends with the evaluation that rolls dice
Evaluate ==
    /\ call = NoCall
    /\ \E node \in Nodes(MaxDice) :
         \E src \in Srcs(node) :
           \E r \in {dice_evaluate([ctx EXCEPT !.rng = [src |-> src, pos |-> 0]], node)} :
           /\ ctx' = [r.ctx EXCEPT !.rng = NoRng]
           /\ result' = [value |-> r.value, success |-> r.success]
           /\ call' = Called(node)

\* dice_context_set_policy(ctx, policy)
SetPolicy ==
    /\ ctx.drawn = <<>>
    /\ \E p \in Policies \ {ctx.policy} :
         /\ ctx' = [ctx EXCEPT !.policy = p]
         /\ call' = NoCall
         /\ UNCHANGED result

\* dice_clear_error(ctx)
ClearError ==
    /\ ctx.drawn = <<>>
    /\ ctx.error.has_error
    /\ ctx' = [ctx EXCEPT !.error = NoError]
    /\ call' = NoCall
    /\ UNCHANGED result

Next == Evaluate \/ SetPolicy \/ ClearError

Spec == Init /\ [][Next]_vars

(***************************************************************************)
(* Vocabulary of the properties                                            *)
(***************************************************************************)
\* the state is the one dice_evaluate has just returned in
Returned == call.op = "evaluate"

Term == call.node
TermCount == Term.count.value
TermSides == Term.sides.value

IsFilter == Term.dice_type = "DICE_DICE_FILTER"
IsBasic == Term.dice_type = "DICE_DICE_BASIC"
IsKeep ==
    IsFilter /\ ~Term.selection.is_conditional /\ ~Term.selection.is_drop_operation
IsConditional ==
    IsFilter /\ Term.selection.is_conditional /\ ~Term.selection.is_reroll
IsRerollTerm == IsFilter /\ IsReroll(Term)

\* what the call appended to the trace, and what it drew from rand()
NewTrace == SubSeq(ctx.trace, call.trace0 + 1, Len(ctx.trace))
NewDrawn == SubSeq(ctx.drawn, call.drawn0 + 1, Len(ctx.drawn))

\* the error slot was clear when the call was made
ErrorWasClear == ~call.err0

\* no allocation of the call failed (arena_alloc leaves code -1 behind)
ArenaSufficed == ctx.error.code # -1

\* count and sides are inside the installed policy
ValidTerm ==
    /\ TermCount >= 1 /\ TermCount <= ctx.policy.max_dice_count
    /\ TermSides >= 1 /\ TermSides <= ctx.policy.max_sides

\* the meaning of a comparator of the notation
Holds(op, value, threshold) ==
    \/ op = "DICE_OP_GT" /\ value > threshold
    \/ op = "DICE_OP_LT" /\ value < threshold
    \/ op = "DICE_OP_GTE" /\ ~(value < threshold)
    \/ op = "DICE_OP_LTE" /\ ~(value > threshold)
    \/ op = "DICE_OP_EQ" /\ value = threshold
    \/ op = "DICE_OP_NEQ" /\ value # threshold

\* the term's condition holds for value
Satisfies(value) ==
    Holds(Term.selection.comparison_op, value, Term.selection.comparison_value)

RECURSIVE Sum(_)
Sum(seq) == IF seq = <<>> THEN 0 ELSE Head(seq) + Sum(Tail(seq))

Results(entries) == [i \in 1..Len(entries) |-> entries[i].result]

Min(a, b) == IF a < b THEN a ELSE b

\* the sum of the m highest (high) or lowest values of seq
Best(seq, high) ==
    CHOOSE i \in 1..Len(seq) :
        \A j \in 1..Len(seq) : IF high THEN seq[i] >= seq[j] ELSE seq[i] <= seq[j]

Without(seq, i) == SubSeq(seq, 1, i - 1) \o SubSeq(seq, i + 1, Len(seq))

RECURSIVE SumBest(_, _, _)
SumBest(seq, m, high) ==
    IF m = 0 \/ seq = <<>>
    THEN 0
    ELSE seq[Best(seq, high)] + SumBest(Without(seq, Best(seq, high)), m - 1, high)

(***************************************************************************)
(* Properties                                                              *)
(***************************************************************************)
\* C1: the evaluation of a reroll term whose condition holds for every face
\* returns failure with the error flag set, after at most max_rerolls
\* re-rolls (exactly max_rerolls of the first die when the term is valid).
C1_AlwaysTrueRerollFails ==
    (Returned /\ IsRerollTerm /\ \A v \in 1..TermSides : Satisfies(v))
    => /\ ~result.success
       /\ ctx.error.has_error
       /\ Len(NewDrawn) <= TermCount + max_rerolls
       /\ ValidTerm => /\ Len(NewDrawn) = TermCount + max_rerolls
                       /\ ctx.error.message = "Maximum reroll limit exceeded"

C1_Witness ==
    /\ Returned /\ IsRerollTerm /\ ValidTerm /\ ErrorWasClear /\ ArenaSufficed
    /\ TermCount = MaxDice /\ TermSides = MaxSides
    /\ \A v \in 1..TermSides : Satisfies(v)
    /\ Len(NewDrawn) = TermCount + max_rerolls
    /\ ~result.success /\ ctx.error.has_error

\* C2: with the error slot clear and the arena sufficient, keep N of count
\* dice succeeds with the sum of the min(N, count) highest (keep-high) or
\* lowest (keep-low) of the count values rolled; that is all of them for
\* N >= count and 0 for N = 0.
C2_KeepSumsBest ==
    (Returned /\ IsKeep /\ ValidTerm /\ ErrorWasClear /\ ArenaSufficed)
    => /\ result.success
       /\ Len(NewDrawn) = TermCount
       /\ result.value = SumBest(NewDrawn, Min(Term.selection.count, TermCount),
                                 Term.selection.select_high)
       /\ Term.selection.count >= TermCount => result.value = Sum(NewDrawn)
       /\ Term.selection.count = 0 => result.value = 0

C2_Witness ==
    /\ Returned /\ IsKeep /\ ValidTerm /\ ErrorWasClear /\ ArenaSufficed
    /\ Term.selection.select_high
    /\ TermCount = MaxDice /\ Term.selection.count = MaxDice - 1
    /\ NewDrawn = [i \in 1..MaxDice |-> IF i = 2 THEN 1 ELSE MaxSides]
    /\ result.success /\ result.value = (MaxDice - 1) * MaxSides

\* C3: a conditional selection that succeeds leaves exactly count new trace
\* entries, the values in the order rolled; an entry is marked selected if
\* and only if its value satisfies the comparison, and the result is the sum
\* of the selected values.  With the error slot clear and the arena
\* sufficient a valid term does succeed.
C3_ConditionalSelectsMatching ==
    (Returned /\ IsConditional)
    => /\ (ValidTerm /\ ErrorWasClear /\ ArenaSufficed) => result.success
       /\ result.success =>
            /\ Len(NewTrace) = TermCount
            /\ Results(NewTrace) = NewDrawn
            /\ \A i \in 1..Len(NewTrace) :
                 /\ NewTrace[i].sides = TermSides
                 /\ NewTrace[i].selected <=> Satisfies(NewTrace[i].result)
            /\ result.value =
                 Sum(Results(SelectSeq(NewTrace, LAMBDA e : Satisfies(e.result))))

C3_Witness ==
    /\ Returned /\ IsConditional /\ result.success
    /\ TermCount = MaxDice
    /\ \E i, j \in 1..Len(NewTrace) : NewTrace[i].selected /\ ~NewTrace[j].selected
    /\ result.value > 0

C5_BasicTermTracesEveryRoll ==
    (Returned /\ IsBasic /\ result.success)
    => /\ result.value \in TermCount..(TermCount * TermSides)
       /\ Len(NewDrawn) = TermCount
       /\ Len(NewTrace) = TermCount
       /\ \A i \in 1..Len(NewTrace) :
            NewTrace[i].sides = TermSides /\ ~NewTrace[i].selected
       /\ Sum(Results(NewTrace)) = result.value

\* C5 holds when no allocation of the call failed
C5_BasicTermArenaSufficient ==
    (Returned /\ IsBasic /\ result.success /\ ArenaSufficed)
    => /\ result.value \in TermCount..(TermCount * TermSides)
       /\ Len(NewDrawn) = TermCount
       /\ Results(NewTrace) = NewDrawn
       /\ \A i \in 1..Len(NewTrace) :
            NewTrace[i].sides = TermSides /\ ~NewTrace[i].selected
       /\ Sum(Results(NewTrace)) = result.value

\* C6: after a filter term (keep/drop, conditional or reroll) has been
\* evaluated with success, the error slot clear and the arena sufficient,
\* the number of trace entries added equals the number of values drawn.
C6_EveryDrawTraced ==
    (Returned /\ IsFilter /\ ErrorWasClear /\ ArenaSufficed /\ result.success)
    => Len(NewTrace) = Len(NewDrawn)

\* C7: the results of the trace entries, read first to last, are the values
\* drawn, in the order drawn (stated for the states where each value drawn
\* has an entry).
C7_TraceInDrawOrder ==
    Len(ctx.trace) = Len(ctx.drawn) => Results(ctx.trace) = ctx.drawn

\* the dice a stable sort by value keeps: those with fewer than m dice ahead
\* of them, a die being ahead when its value is better or equal and rolled
\* earlier
Ahead(rolls, high, j, i) ==
    \/ IF high THEN rolls[j] > rolls[i] ELSE rolls[j] < rolls[i]
    \/ rolls[j] = rolls[i] /\ j < i

StableKept(rolls, m, high) ==
    {i \in 1..Len(rolls) :
        Cardinality({j \in 1..Len(rolls) : Ahead(rolls, high, j, i)}) < m}

\* C8: in a keep that traced its count dice, the dice marked selected are
\* the ones a stable sort keeps: among dice of equal value, the earliest.
C8_TiesKeepEarliest ==
    (Returned /\ IsKeep /\ result.success /\ Len(NewTrace) = TermCount)
    => \A i \in 1..TermCount :
         NewTrace[i].selected
           <=> i \in StableKept(NewDrawn, Min(Term.selection.count, TermCount),
                                Term.selection.select_high)

\* C9: a valid reroll term evaluated with the error slot clear and the arena
\* sufficient fails if and only if a die has been re-rolled max_rerolls times
\* and the value of its last re-roll, the last value drawn, still satisfies
\* the condition.
C9_FailsOnlyIfStillMatching ==
    (Returned /\ IsRerollTerm /\ ValidTerm /\ ErrorWasClear /\ ArenaSufficed)
    => (~result.success
          <=> /\ Len(NewDrawn) >= TermCount + max_rerolls
              /\ Satisfies(NewDrawn[Len(NewDrawn)]))

\* C10: after a reroll term succeeds, exactly count new trace entries are
\* selected, they are the last ones, their values are in [1, sides], do not
\* satisfy the condition and sum to the result; every value drawn has an
\* entry, and the unselected ones are the discarded values, which satisfied
\* the condition.
C10_RerollFinalValues ==
    (Returned /\ IsRerollTerm /\ result.success)
    => LET finals == SelectSeq(NewTrace, LAMBDA e : e.selected)
           first == Len(NewTrace) - TermCount
       IN  /\ Len(finals) = TermCount
           /\ Len(NewTrace) = Len(NewDrawn)
           /\ result.value = Sum(Results(finals))
           /\ \A i \in 1..Len(NewTrace) :
                /\ NewTrace[i].sides = TermSides
                /\ NewTrace[i].result \in 1..TermSides
                /\ NewTrace[i].selected <=> i > first
                /\ NewTrace[i].selected <=> ~Satisfies(NewTrace[i].result)

C10_Witness ==
    /\ Returned /\ IsRerollTerm /\ result.success
    /\ TermCount = MaxDice
    /\ Len(NewTrace) >= TermCount + max_rerolls - 1
    /\ \E i \in 1..Len(NewTrace) : ~NewTrace[i].selected

(***************************************************************************)
(* Sessions: a context created by dice_context_create and driven through   *)
(* dice_roll_expression, dice_clear_error and dice_context_reset.  A       *)
(* session makes at most MaxRolls calls of dice_roll_expression.  The log  *)
(* ctx.drawn is emptied before every call.                                 *)
(***************************************************************************)
MaxRolls == 2

AllFeatures ==
    {"DICE_FEATURE_BASIC", "DICE_FEATURE_POOL", "DICE_FEATURE_EXPLODING",
     "DICE_FEATURE_FATE", "DICE_FEATURE_KEEP_DROP"}

\* dice_register_custom_die: -1 for a die without sides, else the die is
\* appended to the registry
dice_register_custom_die(c, name, sides) ==
    IF Len(sides) = 0 THEN c
    ELSE [c EXCEPT !.custom_dice = Append(@, [name |-> name, sides |-> sides])]

\* dice_clear_custom_dice: count = 0
dice_clear_custom_dice(c) == [c EXCEPT !.custom_dice = <<>>]

fate_sides == <<-1, 0, 1>>

dice_context_create(arena_size, features) ==
    LET c == [arena_size |-> arena_size, arena_used |-> 0, error |-> NoError,
              policy |-> dice_default_policy, trace |-> <<>>, rng |-> NoRng,
              drawn |-> <<>>, features |-> features, custom_dice |-> <<>>]
    IN  IF "DICE_FEATURE_FATE" \in features
        THEN dice_register_custom_die(c, <<"F">>, fate_sides)
        ELSE c

\* a reset that leaves arena_used where it was
dice_context_reset_KeepsArena(c) ==
    dice_clear_custom_dice([c EXCEPT !.error = NoError, !.trace = <<>>])

dice_context_reset(c) ==
    dice_clear_custom_dice([c EXCEPT !.arena_used = 0, !.error = NoError,
                                     !.trace = <<>>])

dice_clear_error(c) == [c EXCEPT !.error = NoError]

\* the expressions a session rolls
E_basic == <<"1", "d", "6">>
E_one == <<"d", "6">>
E_literal == <<"5">>
E_k == <<"2", "d", "6", "k", "1">>
E_kh == <<"2", "d", "6", "k", "h", "1">>
E_l == <<"2", "d", "6", "l", "1">>
E_kl == <<"2", "d", "6", "k", "l", "1">>
E_d == <<"2", "d", "6", "d", "1">>
E_dl == <<"2", "d", "6", "d", "l", "1">>
E_dh == <<"2", "d", "6", "d", "h", "1">>
E_explode == <<"1", "d", "6", "!">>
E_inline == <<"2", "d", "{", "1", ",", "2", ",", "3", "}">>
E_inline_k == <<"2", "d", "{", "1", ",", "2", ",", "3", "}", "k", "1">>
E_fate == <<"2", "d", "F">>
E_sum == <<"1", "d", "6", "+", "1", "d", "6">>
E_badleft == <<"1", "d", "0", "+", "1", "d", "6">>
E_divzero == <<"1", "d", "6", "/", "0">>
E_open == <<"(", "1", "d", "6">>
E_diff == <<"1", "d", "6", "-", "1", "d", "4">>

Exprs ==
    {E_basic, E_one, E_literal, E_k, E_kh, E_l, E_kl, E_d, E_dl, E_dh, E_explode,
     E_inline, E_inline_k, E_fate, E_sum, E_badleft, E_divzero, E_open, E_diff}

\* the streams rand() may produce during a call: two values, then 0 forever
SessionSrcs ==
    {[pre |-> <<a, b>>, head |-> 0, run |-> 0, tail |-> 0] : a \in {0, 2}, b \in {0, 2}}

NoExpr == <<>>

\* the call just made in a session: the operation, its expression, the
\* context it found (the stream of rand() installed) and the number of
\* dice_roll_expression calls made so far; prev is the call before it and
\* the error code that call found
SessionCall(op, expr, before, n) ==
    [op |-> op, node |-> NoNode, expr |-> expr, before |-> before,
     trace0 |-> Len(before.trace), drawn0 |-> 0, err0 |-> before.error.has_error,
     arena0 |-> before.arena_used, n |-> n,
     prev |-> [op |-> call.op,
               code |-> IF call.op = "create" THEN 0 ELSE call.before.error.code]]

NoSessionCall ==
    [op |-> "create", node |-> NoNode, expr |-> NoExpr, n |-> 0,
     prev |-> [op |-> "none", code |-> 0]]

\* dice_context_create(arena_size, features)
SessionInit ==
    /\ ctx \in {dice_context_create(a, f) :
                  a \in {SmallArena, LargeArena},
                  f \in {AllFeatures, {"DICE_FEATURE_BASIC"}}}
    /\ result = [value |-> 0, success |-> FALSE]
    /\ call = NoSessionCall

\* dice_roll_expression(ctx, expr)
RollExpression ==
    /\ call.n < MaxRolls
    /\ \E expr \in Exprs :
         \E src \in SessionSrcs :
           LET before == [ctx EXCEPT !.rng = [src |-> src, pos |-> 0], !.drawn = <<>>] IN
           \E r \in {dice_roll_expression(before, expr)} :
             /\ ctx' = [r.ctx EXCEPT !.rng = NoRng]
             /\ result' = [value |-> r.value, success |-> r.success]
             /\ call' = SessionCall("roll", expr, before, call.n + 1)

\* dice_context_reset(ctx)
Reset ==
    /\ call.op # "reset"
    /\ ctx' = dice_context_reset(ctx)
    /\ call' = SessionCall("reset", NoExpr, ctx, call.n)
    /\ UNCHANGED result

\* dice_clear_error(ctx), the error flag set
SessionClearError ==
    /\ ctx.error.has_error
    /\ ctx' = dice_clear_error(ctx)
    /\ call' = SessionCall("clear_error", NoExpr, ctx, call.n)
    /\ UNCHANGED result

SessionNext == RollExpression \/ Reset \/ SessionClearError

SessionSpec == SessionInit /\ [][SessionNext]_vars

\* the state is the one dice_roll_expression has just returned in
Rolled == call.op = "roll"
RolledExpr(expr) == Rolled /\ call.expr = expr

\* the call found a context just created
Fresh == call.before = [dice_context_create(ctx.arena_size, ctx.features)
                           EXCEPT !.rng = call.before.rng]

\* what dice_roll_expression returns for expr called where the last call was
WouldRoll(expr) == dice_roll_expression(call.before, expr)

\* the trace entries a call appended, the call returning r
TraceOf(r) == SubSeq(r.ctx.trace, call.trace0 + 1, Len(r.ctx.trace))

\* the arena was large enough for the call
LargeSession == ctx.arena_size = LargeArena

\* C11: NdSkhM is an alias of NdSkM: rolled with the error slot clear and an
\* arena large enough, 2d6kh1 parses and evaluates successfully, and with
\* the same values of rand() it returns what 2d6k1 returns: the same value,
\* the same error state and the same trace entries with the same flags.
C11_KhAliasOfK ==
    (RolledExpr(E_kh) /\ ErrorWasClear /\ LargeSession)
    => /\ result.success
       /\ WouldRoll(E_k).success
       /\ result.value = WouldRoll(E_k).value
       /\ ctx.error = WouldRoll(E_k).ctx.error
       /\ NewTrace = TraceOf(WouldRoll(E_k))

\* the two faces a 2d6 term rolls from the stream of rand() of the call
FirstFace == (rand(call.before.rng.src, 0) % 6) + 1
SecondFace == (rand(call.before.rng.src, 1) % 6) + 1
HigherFace == IF FirstFace >= SecondFace THEN FirstFace ELSE SecondFace
LowerFace == IF FirstFace <= SecondFace THEN FirstFace ELSE SecondFace

\* C12: the drop modifiers are accepted: rolled with the error slot clear
\* and an arena large enough, 2d6d1 and 2d6dl1 (drop the lowest die) succeed
\* with the higher of the two faces rolled, 2d6dh1 (drop the highest) and
\* 2d6kl1 (keep the lowest) succeed with the lower one.
C12_DropModifiers ==
    (Rolled /\ call.expr \in {E_d, E_dl, E_dh, E_kl} /\ ErrorWasClear /\ LargeSession)
    => /\ result.success
       /\ result.value = IF call.expr \in {E_d, E_dl} THEN HigherFace ELSE LowerFace

\* the single-letter keeps of the same term do what C12 asks of the drops
C12_SingleLetterKeeps ==
    (Rolled /\ call.expr \in {E_k, E_l} /\ ErrorWasClear /\ LargeSession)
    => /\ result.success
       /\ result.value = IF call.expr = E_k THEN HigherFace ELSE LowerFace

(***************************************************************************)
(* Exploding dice.  The parser of src/src/parser.c knows no ! (1d6! ends   *)
(* with "Unexpected characters at end of expression"); the exploding term  *)
(* is evaluated by dice_evaluate of src/src/dice_core.c.  Its loops are    *)
(* followed one iteration per step: call is the position inside            *)
(* dice_evaluate, result the accumulator.  The number of extra rolls of a  *)
(* die is followed up to MaxExtra.                                         *)
(***************************************************************************)
MaxExplodeDice == 2
MaxExplodeSides == 2
MaxDepth == 2
MaxExtra == 4

\* the position: pc before the call, in the for loop, in the while loop of
\* an exploding die, or returned
ExplodeAt(pc, count, sides, i, roll, extra) ==
    [op |-> "explode", pc |-> pc, count |-> count, sides |-> sides, i |-> i,
     roll |-> roll, extra |-> extra]

\* a context whose policy allows depth explosions
ExplodeInit ==
    /\ ctx \in {[dice_context_create(LargeArena, AllFeatures)
                    EXCEPT !.policy.max_explosion_depth = d] : d \in 0..MaxDepth}
    /\ result = [value |-> 0, success |-> FALSE]
    /\ call = ExplodeAt("idle", 0, 0, 0, 0, 0)

\* count <= 0 || count > max_dice_count, sides <= 0 || sides > max_sides
CoreInvalid(c, count, sides) ==
    IF count <= 0 \/ count > c.policy.max_dice_count THEN "Invalid dice count"
    ELSE IF sides <= 0 \/ sides > c.policy.max_sides THEN "Invalid dice sides"
    ELSE ""

\* dice_evaluate of an exploding term with literal count and sides, up to
\* the for loop
ExplodeEnter ==
    /\ call.pc = "idle"
    /\ \E count \in 0..MaxExplodeDice, sides \in 0..MaxExplodeSides :
         IF CoreInvalid(ctx, count, sides) # ""
         THEN /\ ctx' = SetError(ctx, CoreInvalid(ctx, count, sides))
              /\ call' = ExplodeAt("done", count, sides, 0, 0, 0)
              /\ UNCHANGED result
         ELSE /\ call' = ExplodeAt("for", count, sides, 0, 0, 0)
              /\ result' = [value |-> 0, success |-> FALSE]
              /\ UNCHANGED ctx

\* the head of the body of the for loop: roll the die, trace it
ExplodeRoll ==
    /\ call.pc = "for"
    /\ call.i < call.count
    /\ \E roll \in 1..call.sides :
         /\ ctx' = trace_atomic_roll([ctx EXCEPT !.drawn = Append(@, roll)],
                                     call.sides, roll)
         /\ call' = [call EXCEPT !.pc = "while", !.roll = roll, !.extra = 0]
    /\ UNCHANGED result

\* while (roll == sides && ctx->policy.max_explosion_depth > 0)
ExplodeContinues == call.roll = call.sides /\ ctx.policy.max_explosion_depth > 0

\* one iteration of the while loop: add the face, roll again, trace
ExplodeAgain ==
    /\ call.pc = "while"
    /\ ExplodeContinues
    /\ call.extra < MaxExtra
    /\ \E roll \in 1..call.sides :
         /\ ctx' = trace_atomic_roll([ctx EXCEPT !.drawn = Append(@, roll)],
                                     call.sides, roll)
         /\ call' = [call EXCEPT !.roll = roll, !.extra = @ + 1]
    /\ result' = [result EXCEPT !.value = @ + call.roll]

\* the while loop left: add the last face, next die
ExplodeExit ==
    /\ call.pc = "while"
    /\ ~ExplodeContinues
    /\ result' = [result EXCEPT !.value = @ + call.roll]
    /\ call' = [call EXCEPT !.pc = "for", !.i = @ + 1]
    /\ UNCHANGED ctx

\* the for loop left: result.success = true
ExplodeReturn ==
    /\ call.pc = "for"
    /\ call.i >= call.count
    /\ result' = [result EXCEPT !.success = TRUE]
    /\ call' = [call EXCEPT !.pc = "done"]
    /\ UNCHANGED ctx

ExplodeNext ==
    ExplodeEnter \/ ExplodeRoll \/ ExplodeAgain \/ ExplodeExit \/ ExplodeReturn

ExplodeSpec == ExplodeInit /\ [][ExplodeNext]_vars

\* C13: while an exploding term is evaluated, the number of extra rolls of
\* the die being rolled never exceeds policy.max_explosion_depth.
C13_ExplosionBounded ==
    call.pc = "while" => call.extra <= ctx.policy.max_explosion_depth

\* C13, the real parser: 1d6! is not evaluated at all
C13_BangRejected ==
    (RolledExpr(E_explode) /\ ErrorWasClear /\ LargeSession)
    => ~result.success /\ ctx.error.message = "Unexpected characters at end of expression"

(***************************************************************************)
(* Binary operations                                                       *)
(***************************************************************************)
\* the faces the two draws of a call give on dice of the given sides
FaceOf(k, sides) == (rand(call.before.rng.src, k) % sides) + 1

\* 1d6-1d4 succeeded: the first draw is the d6 of the left operand, the
\* second the d4 of the right one, in the log of draws and in the trace
LeftBeforeRight ==
    (RolledExpr(E_diff) /\ result.success)
    => /\ ctx.drawn = <<FaceOf(0, 6), FaceOf(1, 4)>>
       /\ result.value = FaceOf(0, 6) - FaceOf(1, 4)
       /\ Len(NewTrace) = 2
       /\ NewTrace[1].sides = 6 /\ NewTrace[1].result = FaceOf(0, 6)
       /\ NewTrace[2].sides = 4 /\ NewTrace[2].result = FaceOf(1, 4)

\* 1d0+1d6: the left operand fails, nothing is drawn and nothing traced
LeftFailureShortCircuits ==
    RolledExpr(E_badleft)
    => /\ ~result.success
       /\ ctx.drawn = <<>>
       /\ NewTrace = <<>>
       /\ (LargeSession /\ ErrorWasClear)
          => ctx.error.message = "Dice sides must be positive"

\* 1d6/0: hard error
DivisionByZeroFails ==
    RolledExpr(E_divzero)
    => /\ ~result.success
       /\ ctx.error.has_error
       /\ (LargeSession /\ ErrorWasClear)
          => /\ ctx.error.message = "Division by zero"
             /\ Len(ctx.drawn) = 1

\* C14: a binary operation evaluates its left operand completely before its
\* right operand (draws and trace entries of the left come first); a failing
\* left operand keeps the right one from being evaluated (no draw, no trace
\* entry); a division by a right operand of value 0 returns success = false
\* with the error flag set.
C14_BinaryOrderAndShortCircuit ==
    /\ LeftBeforeRight
    /\ LeftFailureShortCircuits
    /\ DivisionByZeroFails

\* 1d6/0 was rolled in the large arena: the die was drawn, then the division
\* failed
C14_Witness ==
    /\ RolledExpr(E_divzero)
    /\ LargeSession
    /\ ErrorWasClear
    /\ ~result.success
    /\ ctx.error.message = "Division by zero"
    /\ Len(NewTrace) = 1

\* the two operands of 1d6-1d4 drew different faces
OrderSeen ==
    RolledExpr(E_diff) /\ result.success /\ FaceOf(0, 6) # FaceOf(1, 4)

\* the left operand of 1d0+1d6 failed in evaluation
ShortCircuitSeen ==
    /\ RolledExpr(E_badleft) /\ LargeSession /\ ErrorWasClear
    /\ ctx.error.message = "Dice sides must be positive"

(***************************************************************************)
(* The error slot                                                          *)
(***************************************************************************)
\* the context of the call with the message of the earlier failure replaced
\* by a mark no call writes
Marked(c) == [c EXCEPT !.error.message = "earlier failure"]

\* the call, made with the marked slot, left the mark where it was
MarkSurvives ==
    dice_roll_expression(Marked(call.before), call.expr).ctx.error.message
        = "earlier failure"

\* C15: the error slot only ever holds the most recent error: when a call
\* made with an earlier failure still in the slot fails, the stored message
\* is the one this failure produced, not the earlier one.
C15_MostRecentError ==
    (Rolled /\ ~result.success /\ call.err0) => ~MarkSurvives

\* C15, after dice_clear_error or on a new context: a failing call that
\* reports an error reports its own
C15_OwnErrorWhenClear ==
    (Rolled /\ ~result.success /\ ErrorWasClear /\ ctx.error.has_error)
    => ~MarkSurvives

\* C16: a call of dice_roll_expression made with the error slot clear that
\* returns success = true leaves no error in the context, whatever the
\* capacity of the arena.
C16_SuccessLeavesNoError ==
    (Rolled /\ ErrorWasClear /\ result.success) => ~ctx.error.has_error

\* C16, where the arena holds the whole call: success comes without an error
C16_HoldsInLargeArena ==
    (Rolled /\ ErrorWasClear /\ result.success /\ LargeSession)
    => ~ctx.error.has_error

\* C17: a call of dice_roll_expression that returns success = false leaves
\* the error flag set and a message in the slot, for every input: arena
\* exhaustion, a custom die followed by a keep modifier.
C17_FailureIsReported ==
    (Rolled /\ ~result.success)
    => ctx.error.has_error /\ ctx.error.message # ""

\* C17, all inputs but a custom die with a modifier: a failure is reported
C17_ReportedWithoutCustomModifier ==
    (Rolled /\ ~result.success /\ call.expr # E_inline_k)
    => ctx.error.has_error /\ ctx.error.message # ""

(***************************************************************************)
(* The arena.  arena_alloc is followed call by call on small arenas: call  *)
(* keeps the bytes of the arena (0, or 1 for a byte that is not zero) and  *)
(* the blocks handed out since the last reset; result is the returned      *)
(* pointer.                                                                *)
(***************************************************************************)
MaxBlocks == 3
ArenaSizes == {0, 20, 24, 40}
AllocSizes == {0, 1, 8, 12, 16, 24}

\* memset(ptr, v, len) on the bytes of the arena
Memset(mem, ptr, len, v) ==
    [i \in 1..Len(mem) |-> IF i > ptr /\ i <= ptr + len THEN v ELSE mem[i]]

\* malloc(arena_size): the bytes are whatever the heap held
Malloc(size) == {[i \in 1..size |-> v] : v \in {0, 1}}

ArenaCall(op, size, before, arena, blocks) ==
    [op |-> op, size |-> size, before |-> before, arena0 |-> before.arena,
     arena |-> arena, blocks |-> blocks]

ArenaInit ==
    /\ ctx \in {dice_context_create(a, {"DICE_FEATURE_BASIC"}) : a \in ArenaSizes}
    /\ result = [value |-> NULL, success |-> FALSE]
    /\ call \in {[op |-> "create", size |-> 0, before |-> [used |-> 0, arena |-> m],
                  arena0 |-> m, arena |-> m, blocks |-> <<>>]
                 : m \in Malloc(ctx.arena_size)}

\* what the call found: arena_used and the bytes
Found == [used |-> ctx.arena_used, arena |-> call.arena]

\* arena_alloc(ctx, size) with its memset
ArenaAlloc ==
    /\ Len(call.blocks) < MaxBlocks
    /\ \E size \in AllocSizes :
         \E r \in {arena_alloc(ctx, size)} :
           /\ ctx' = r.ctx
           /\ result' = [value |-> r.ptr, success |-> r.ptr # NULL]
           /\ call' = IF r.ptr = NULL
                      THEN ArenaCall("alloc", size, Found, call.arena, call.blocks)
                      ELSE ArenaCall("alloc", size, Found,
                                     Memset(call.arena, r.ptr,
                                            r.ctx.arena_used - ctx.arena_used, 0),
                                     Append(call.blocks,
                                            [ptr |-> r.ptr,
                                             len |-> r.ctx.arena_used - ctx.arena_used]))

\* the caller fills a block it was given (create_node stores the node)
ArenaWrite ==
    /\ call.op # "write"
    /\ \E k \in 1..Len(call.blocks) :
         /\ call.blocks[k].len > 0
         /\ call' = ArenaCall("write", 0, Found,
                              Memset(call.arena, call.blocks[k].ptr,
                                     call.blocks[k].len, 1),
                              call.blocks)
    /\ UNCHANGED <<ctx, result>>

\* dice_context_reset: the bytes stay as they are
ArenaReset ==
    /\ call.op # "reset"
    /\ ctx' = dice_context_reset(ctx)
    /\ call' = ArenaCall("reset", 0, Found, call.arena, <<>>)
    /\ UNCHANGED result

ArenaNext == ArenaAlloc \/ ArenaWrite \/ ArenaReset

ArenaSpec == ArenaInit /\ [][ArenaNext]_vars

\* size rounded up to a multiple of 8
RoundedUp(size) == CHOOSE n \in size..(size + 7) : n % 8 = 0

Allocated == call.op = "alloc"
LastBlock == call.blocks[Len(call.blocks)]
Disjoint(a, b) == a.ptr + a.len <= b.ptr \/ b.ptr + b.len <= a.ptr

\* the allocation succeeded: a zero-filled block at the previous arena_used,
\* apart from the earlier blocks, arena_used advanced by the rounded size
AllocSucceeded ==
    /\ result.success
    /\ result.value = call.before.used
    /\ ctx.arena_used = call.before.used + RoundedUp(call.size)
    /\ LastBlock = [ptr |-> call.before.used, len |-> RoundedUp(call.size)]
    /\ \A i \in 1..RoundedUp(call.size) : call.arena[result.value + i] = 0
    /\ \A k \in 1..(Len(call.blocks) - 1) : Disjoint(call.blocks[k], LastBlock)

\* the allocation failed: NULL, code -1, arena_used as before
AllocFailed ==
    /\ ~result.success
    /\ result.value = NULL
    /\ ctx.error.has_error
    /\ ctx.error.code = -1
    /\ ctx.arena_used = call.before.used
    /\ call.arena = call.arena0

\* C18: arena_alloc(size) either returns a zero-filled block that starts at
\* the previous arena_used, overlaps no block returned since the last reset
\* and advances arena_used by size rounded up to a multiple of 8, or, when
\* the rounded size does not fit, returns NULL, sets the error flag with
\* code -1 and leaves arena_used unchanged; arena_used <= arena_size and
\* arena_used is a multiple of 8 in every state.
C18_ArenaAlloc ==
    /\ Allocated =>
         IF call.before.used + RoundedUp(call.size) <= ctx.arena_size
         THEN AllocSucceeded
         ELSE AllocFailed
    /\ ctx.arena_used <= ctx.arena_size
    /\ ctx.arena_used % 8 = 0

\* 12 bytes were taken as a block of 16 behind an earlier block, from bytes
\* that were not zero
C18_Witness ==
    /\ Allocated
    /\ result.success
    /\ call.size = 12
    /\ call.before.used > 0
    /\ \A i \in 1..16 : call.arena0[result.value + i] = 1
    /\ ctx.arena_used = call.before.used + 16

\* an allocation failed in an arena of 20 bytes with 16 in use
ExhaustionSeen ==
    /\ Allocated
    /\ ~result.success
    /\ ctx.arena_size = 20
    /\ ctx.arena_used = 16
    /\ call.size = 1

(***************************************************************************)
(* Reset                                                                   *)
(***************************************************************************)
WasReset == call.op = "reset"

\* the reset found the code of an arena-exhaustion failure
AfterExhaustion == call.prev.op = "reset" /\ call.prev.code = -1

\* what dice_context_reset changes and what it leaves
ResetEffect ==
    WasReset
    => /\ ctx.arena_used = 0
       /\ ctx.error = [message |-> "", code |-> 0, has_error |-> FALSE]
       /\ ctx.trace = <<>>
       /\ ctx.custom_dice = <<>>
       /\ ctx.policy = call.before.policy
       /\ ctx.rng = call.before.rng
       /\ ctx.features = call.before.features
       /\ ctx.arena_size = call.before.arena_size

\* 5 and d6 fit the arena of 128 bytes: rolled right after the reset that
\* followed an exhaustion they succeed
ResetRecovers ==
    (Rolled /\ call.expr \in {E_literal, E_one} /\ AfterExhaustion)
    => /\ result.success
       /\ call.arena0 = 0
       /\ call.expr = E_literal => (result.value = 5 /\ ~ctx.error.has_error)

\* C19: dice_context_reset sets arena_used to 0, clears the error state,
\* empties the trace and the custom-die registry and leaves the policy, the
\* installed RNG, the feature flags and the arena capacity unchanged; after
\* a reset that follows an arena-exhaustion failure an expression that fits
\* the arena parses and evaluates successfully again.
C19_ResetFrame ==
    /\ ResetEffect
    /\ ResetRecovers

\* 5 succeeded in the small arena right after the reset of an exhausted
\* context
C19_Witness ==
    /\ RolledExpr(E_literal)
    /\ AfterExhaustion
    /\ ctx.arena_size = SmallArena
    /\ result.success
    /\ ctx.arena_used = SmallArena

\* a reset found an exhausted arena, an error, a trace and a registered die
ResetOfUsedContext ==
    /\ WasReset
    /\ call.before.trace # <<>>
    /\ call.before.custom_dice # <<>>
    /\ call.before.error.has_error
    /\ call.before.arena_used > 0

(***************************************************************************)
(* The FATE die                                                            *)
(***************************************************************************)
HasFate == "DICE_FEATURE_FATE" \in ctx.features

\* C20: in a context created with the FATE feature flag the name F resolves
\* to the die of faces -1, 0, 1 at every point of the context's lifetime:
\* 2dF, rolled with the error slot clear after any sequence of calls,
\* dice_context_reset included, succeeds with a value in -2..2.
C20_FateAlwaysResolves ==
    (RolledExpr(E_fate) /\ HasFate /\ ErrorWasClear /\ LargeSession)
    => /\ result.success
       /\ result.value \in -2..2

\* C20, as long as the registry was not cleared: 2dF succeeds in -2..2
C20_FateResolvesBeforeReset ==
    (RolledExpr(E_fate) /\ HasFate /\ ErrorWasClear /\ LargeSession
     /\ call.before.custom_dice # <<>>)
    => /\ result.success
       /\ result.value \in -2..2

\* C20, a context created without the flag: 2dF fails with the flag set
C20_NoFateWithoutFlag ==
    (RolledExpr(E_fate) /\ ~HasFate)
    => /\ ~result.success
       /\ ctx.error.has_error

(***************************************************************************)
(* Random sources of several contexts.  ctx maps the contexts A and B to   *)
(* their rng slot; call keeps the state of rand() of the C library, which  *)
(* all system sources share, and the instances dice_create_system_rng has  *)
(* allocated; result is the last face rolled.                              *)
(***************************************************************************)
MaxInstances == 4
MaxRngRolls == 2
Contexts == {"A", "B"}
Seeds == {1, 2}
RngSides == 6

\* the stream rand() produces after srand(seed)
StreamOf(seed) ==
    [pre |-> <<seed, (2 * seed) + 1, seed + 4>>, head |-> 0, run |-> 0,
     tail |-> seed]

\* srand(seed)
srand(seed) == [src |-> StreamOf(seed), pos |-> 0]

\* a context not created yet, or destroyed
NoContext == [alive |-> FALSE, created |-> FALSE, rng |-> 0]

\* a system_rng_state_t on the heap: its seed, how often cleanup ran on it,
\* the context it was installed in, whether its predecessor had been cleaned
\* up when it was installed, the rolls it served, whether it served one
\* after its cleanup, whether each roll was the next value of its own seed
NewInstance(seed) ==
    [seed |-> seed, cleanups |-> 0, owner |-> "none", after_cleanup |-> TRUE,
     served |-> 0, served_freed |-> FALSE, own_stream |-> TRUE]

\* dice_create_system_rng(seed): malloc the state, init seeds rand();
\* seed 0 stands for time(NULL), here t
dice_create_system_rng(w, seed, t) ==
    LET s == IF seed # 0 THEN seed ELSE t IN
    [w EXCEPT !.heap = Append(@, NewInstance(s)), !.libc = srand(s)]

\* ctx->rng.cleanup(ctx->rng.state)
Cleanup(w, i) == [w EXCEPT !.heap[i].cleanups = @ + 1]

\* ctx->rng = *rng_vtable
Install(w, x, i, old) ==
    [w EXCEPT !.heap[i].owner = x,
              !.heap[i].after_cleanup = (old = 0 \/ w.heap[old].cleanups > 0),
              !.rngs[x] = i]

\* the copy without the cleanup of the old source
dice_context_set_rng_NoCleanup(w, x, i) ==
    Install(w, x, i, w.rngs[x])

\* dice_context_set_rng: cleanup of the old source, then the copy
dice_context_set_rng(w, x, i) ==
    Install(Cleanup(w, w.rngs[x]), x, i, w.rngs[x])

\* ctx->rng.roll(ctx->rng.state, sides) of the system source
RngRoll(w, x, sides) ==
    LET i == w.rngs[x]
        r == system_rng_roll([rng |-> w.libc, drawn |-> <<>>], sides)
        own == (rand(StreamOf(w.heap[i].seed), w.heap[i].served) % sides) + 1 IN
    [world |-> [w EXCEPT !.libc = r.ctx.rng,
                         !.heap[i].served = @ + 1,
                         !.heap[i].served_freed = @ \/ w.heap[i].cleanups > 0,
                         !.heap[i].own_stream = @ /\ r.value = own,
                         !.rolls = @ + 1],
     value |-> r.value]

\* the world of the model: rng slots of the contexts, heap, rand() state
World == [rngs |-> [x \in Contexts |-> ctx[x].rng], heap |-> call.heap,
          libc |-> call.libc, rolls |-> call.rolls]

RngCall(op, x, w) ==
    [op |-> op, x |-> x, heap |-> w.heap, libc |-> w.libc, rolls |-> w.rolls]

RngInit ==
    /\ ctx = [x \in Contexts |-> NoContext]
    /\ result = [value |-> 0, success |-> FALSE]
    /\ call = [op |-> "start", x |-> "none", heap |-> <<>>, libc |-> srand(1),
               rolls |-> 0]

\* dice_context_create: the default source is dice_create_system_rng(0)
RngContextCreate ==
    \E x \in Contexts : \E t \in Seeds :
      /\ ~ctx[x].created
      /\ Len(call.heap) < MaxInstances
      /\ \E w \in {dice_create_system_rng(World, 0, t)} :
           \E v \in {Install(w, x, Len(w.heap), 0)} :
             /\ ctx' = [ctx EXCEPT ![x] = [alive |-> TRUE, created |-> TRUE,
                                           rng |-> v.rngs[x]]]
             /\ call' = RngCall("create", x, v)
      /\ UNCHANGED result

\* dice_create_system_rng(seed) followed by dice_context_set_rng
RngSet ==
    \E x \in Contexts : \E seed \in Seeds :
      /\ ctx[x].alive
      /\ Len(call.heap) < MaxInstances
      /\ \E w \in {dice_create_system_rng(World, seed, seed)} :
           \E v \in {dice_context_set_rng(w, x, Len(w.heap))} :
             /\ ctx' = [ctx EXCEPT ![x].rng = v.rngs[x]]
             /\ call' = RngCall("set_rng", x, v)
      /\ UNCHANGED result

\* one die rolled through the source of the context
RngRollDie ==
    \E x \in Contexts :
      /\ ctx[x].alive
      /\ call.rolls < MaxRngRolls
      /\ \E r \in {RngRoll(World, x, RngSides)} :
           /\ call' = RngCall("roll", x, r.world)
           /\ result' = [value |-> r.value, success |-> TRUE]
      /\ UNCHANGED ctx

\* dice_context_destroy: cleanup of the installed source
RngDestroy ==
    \E x \in Contexts :
      /\ ctx[x].alive
      /\ \E w \in {Cleanup(World, ctx[x].rng)} :
           /\ ctx' = [ctx EXCEPT ![x].alive = FALSE]
           /\ call' = RngCall("destroy", x, w)
      /\ UNCHANGED result

RngNext == RngContextCreate \/ RngSet \/ RngRollDie \/ RngDestroy

RngSpec == RngInit /\ [][RngNext]_vars

Instances == 1..Len(call.heap)
Installed(i) == \E x \in Contexts : ctx[x].alive /\ ctx[x].rng = i

\* C21: a context owns one RNG instance at a time: cleanup runs exactly once
\* on every instance that was installed and is no longer (replaced by
\* dice_context_set_rng, or its context destroyed), never on the installed
\* one, the old instance is cleaned up before the new one is installed, and
\* no roll is served by an instance after its cleanup.
C21_OneOwnedRng ==
    \A i \in Instances :
      /\ call.heap[i].owner \in Contexts
      /\ call.heap[i].cleanups = IF Installed(i) THEN 0 ELSE 1
      /\ call.heap[i].after_cleanup
      /\ ~call.heap[i].served_freed

\* A had three sources, two of them served a roll, and A was destroyed
C21_Witness ==
    /\ call.op = "destroy"
    /\ call.x = "A"
    /\ Cardinality({i \in Instances : call.heap[i].owner = "A"
                                      /\ call.heap[i].cleanups = 1}) = 3
    /\ Cardinality({i \in Instances : call.heap[i].owner = "A"
                                      /\ call.heap[i].served = 1}) = 2

\* C22: two contexts that each own their RNG instance have no cross-talk:
\* every roll context A is served is the next value of the stream of the
\* seed its instance was created with, whatever is done with context B in
\* between.
C22_NoCrossTalk ==
    \A i \in Instances : call.heap[i].owner = "A" => call.heap[i].own_stream

\* C22, as long as context B does not exist: the rolls of A follow the seed
\* of the instance that serves them
C22_AloneFollowsSeed ==
    ~ctx["B"].created
    => \A i \in Instances : call.heap[i].owner = "A" => call.heap[i].own_stream

(***************************************************************************)
(* Formatting the trace (src/src/trace.c).  Text is a sequence of          *)
(* one-character strings; call keeps the buffer the last call filled.      *)
(***************************************************************************)
MaxTraceLen == 2
BufferSizes == {0, 1, 10, 25, 26, 30, 36, 37, 38, 48, 64}
TraceSides == {6, 20}
TraceResults == {-1, 3, 12}

Header ==
    <<"I", "n", "d", "i", "v", "i", "d", "u", "a", "l", " ",
      "d", "i", "c", "e", " ",
      "r", "e", "s", "u", "l", "t", "s", ":", "\n">>

DigitChar(d) == <<"0", "1", "2", "3", "4", "5", "6", "7", "8", "9">>[d + 1]

\* %d of a value that is not negative
RECURSIVE Unsigned(_)
Unsigned(n) ==
    IF n < 10 THEN <<DigitChar(n)>>
    ELSE Append(Unsigned(n \div 10), DigitChar(n % 10))

\* %d
Decimal(n) == IF n < 0 THEN <<"-">> \o Unsigned(-n) ELSE Unsigned(n)

\* "  d%d -> %d%s\n" with the marker of a selected entry
EntryLine(entry) ==
    <<" ", " ", "d">> \o Decimal(entry.sides) \o <<" ", "-", ">", " ">>
    \o Decimal(entry.result) \o (IF entry.selected THEN <<"*">> ELSE <<>>)
    \o <<"\n">>

\* snprintf(buffer + pos, size, ...) of text, size > 0: the characters that
\* fit before the terminating NUL are stored, the length of text is returned
snprintf(buffer, pos, size, text) ==
    [buffer |-> SubSeq(buffer, 1, pos)
                \o SubSeq(text, 1, IF Len(text) < size THEN Len(text) ELSE size - 1),
     written |-> Len(text)]

\* the while loop over the entries from entry k on
RECURSIVE FormatEntries(_, _, _, _, _)
FormatEntries(trace, k, buffer, pos, buffer_size) ==
    IF ~(k <= Len(trace) /\ pos < buffer_size - 1)
    THEN [buffer |-> buffer, ret |-> pos]
    ELSE IF trace[k].type # "TRACE_ATOMIC_ROLL"
    THEN FormatEntries(trace, k + 1, buffer, pos, buffer_size)
    ELSE LET w == snprintf(buffer, pos, buffer_size - pos, EntryLine(trace[k])) IN
         IF w.written >= buffer_size - pos
         THEN [buffer |-> w.buffer, ret |-> -1]
         ELSE FormatEntries(trace, k + 1, w.buffer, pos + w.written, buffer_size)

\* dice_format_trace_string(ctx, buffer, buffer_size) on a buffer that holds
\* old; the text of the buffer afterwards and the returned count
dice_format_trace_string(c, old, buffer_size) ==
    IF buffer_size = 0
    THEN [buffer |-> old, ret |-> -1]
    ELSE IF Len(c.trace) = 0
    THEN [buffer |-> <<>>, ret |-> 0]
    ELSE LET h == snprintf(<<>>, 0, buffer_size, Header) IN
         IF h.written >= buffer_size
         THEN [buffer |-> h.buffer, ret |-> -1]
         ELSE FormatEntries(c.trace, 1, h.buffer, h.written, buffer_size)

\* what the buffer held before the call
Stale == <<"?">>

FormatInit ==
    /\ ctx = dice_context_create(LargeArena, AllFeatures)
    /\ result = [value |-> 0, success |-> FALSE]
    /\ call = [op |-> "create", size |-> 0, buffer |-> Stale]

\* a die was rolled and traced
FormatRoll ==
    /\ Len(ctx.trace) < MaxTraceLen
    /\ \E sides \in TraceSides, res \in TraceResults, selected \in BOOLEAN :
         ctx' = trace_atomic_roll_selected(ctx, sides, res, selected)
    /\ call' = [op |-> "roll", size |-> 0, buffer |-> Stale]
    /\ UNCHANGED result

FormatTrace ==
    /\ \E buffer_size \in BufferSizes :
         \E f \in {dice_format_trace_string(ctx, Stale, buffer_size)} :
           /\ result' = [value |-> f.ret, success |-> f.ret >= 0]
           /\ call' = [op |-> "format", size |-> buffer_size, buffer |-> f.buffer]
    /\ UNCHANGED ctx

FormatNext == FormatRoll \/ FormatTrace

FormatSpec == FormatInit /\ [][FormatNext]_vars

Formatted == call.op = "format"

\* the whole text of a trace
RECURSIVE AllLines(_, _)
AllLines(trace, k) ==
    IF k > Len(trace) THEN <<>> ELSE EntryLine(trace[k]) \o AllLines(trace, k + 1)

\* C23: formatting the trace into a buffer that is too small for every entry
\* is not an error: dice_format_trace_string returns a count that is not
\* negative, never -1.
C23_SmallBufferIsNoError ==
    (Formatted /\ call.size > 0) => result.value >= 0

\* C23, the empty trace: the empty string and 0
C23_EmptyTrace ==
    (Formatted /\ call.size > 0 /\ ctx.trace = <<>>)
    => result.value = 0 /\ call.buffer = <<>>

\* C23, a buffer that holds the text and its NUL: the whole text, its length
C23_FitsWhole ==
    (Formatted /\ ctx.trace # <<>>
     /\ Len(Header) + Len(AllLines(ctx.trace, 1)) < call.size)
    => /\ call.buffer = Header \o AllLines(ctx.trace, 1)
       /\ result.value = Len(call.buffer)

\* the text ends with a whole line
EndsWithLine(text) == Len(text) > 0 /\ text[Len(text)] = "\n"

\* C23, a buffer too small for the text: the buffer is filled with the
\* start of the text; the call returns -1 unless the last character that
\* fits is the end of a line, and then the count
C23_TooSmallFails ==
    (Formatted /\ ctx.trace # <<>> /\ call.size > 0
     /\ Len(Header) + Len(AllLines(ctx.trace, 1)) >= call.size)
    => /\ call.buffer = SubSeq(Header \o AllLines(ctx.trace, 1), 1, call.size - 1)
       /\ result.value = IF EndsWithLine(call.buffer) THEN call.size - 1 ELSE -1

(***************************************************************************)
(* Custom dice: the registry and inline dice with labels.  result holds    *)
(* the value a call returned: of dice_register_custom_die its status, of   *)
(* dice_roll_expression the dice_eval_result_t.                            *)
(***************************************************************************)
MaxRegistered == 2
MaxCustomRolls == 1
DieNames == {<<"X">>, <<"Y">>}
SideLists == {<<>>, <<1, 2>>, <<5, 6>>}

E_labels2 == <<"1", "d", "{", "\"", "a", "\"", ",", "\"", "b", "\"", "}">>
E_labels3 ==
    <<"1", "d", "{", "\"", "a", "\"", ",", "\"", "b", "\"", ",", "\"", "c", "\"", "}">>
E_dieX == <<"1", "d", "X">>
E_dieY == <<"2", "d", "Y">>
CustomExprs == {E_labels2, E_labels3, E_dieX, E_dieY}

\* the number of faces of the inline dice
FacesOf(expr) == IF expr = E_labels2 THEN 2 ELSE 3

\* the streams rand() may produce during a call: two values, then 0 forever
CustomSrcs ==
    {[pre |-> <<a, b>>, head |-> 0, run |-> 0, tail |-> 0] : a \in 0..2, b \in 0..1}

\* the status dice_register_custom_die returns
register_status(c, name, sides) == IF Len(sides) = 0 THEN -1 ELSE 0

CustomCall(op, expr, sides, before, n) ==
    [op |-> op, expr |-> expr, sides |-> sides, before |-> before, n |-> n]

CustomInit ==
    /\ ctx = dice_context_create(LargeArena, {"DICE_FEATURE_BASIC"})
    /\ result = [value |-> 0, success |-> FALSE]
    /\ call = [op |-> "create", expr |-> NoExpr, sides |-> <<>>, n |-> 0]

CustomRegister ==
    /\ Len(ctx.custom_dice) < MaxRegistered
    /\ \E name \in DieNames, sides \in SideLists :
         /\ ctx' = dice_register_custom_die(ctx, name, sides)
         /\ result' = [value |-> register_status(ctx, name, sides),
                       success |-> register_status(ctx, name, sides) = 0]
         /\ call' = CustomCall("register", name, sides, ctx, call.n)

CustomClear ==
    /\ call.op # "clear"
    /\ ctx.custom_dice # <<>>
    /\ ctx' = dice_clear_custom_dice(ctx)
    /\ call' = CustomCall("clear", NoExpr, <<>>, ctx, call.n)
    /\ UNCHANGED result

CustomRoll ==
    /\ call.n < MaxCustomRolls
    /\ \E expr \in CustomExprs : \E src \in CustomSrcs :
         LET before == [ctx EXCEPT !.rng = [src |-> src, pos |-> 0], !.drawn = <<>>] IN
         \E r \in {dice_roll_expression(before, expr)} :
           /\ ctx' = [r.ctx EXCEPT !.rng = NoRng]
           /\ result' = [value |-> r.value, success |-> r.success]
           /\ call' = CustomCall("roll", expr, <<>>, before, call.n + 1)

CustomNext == CustomRegister \/ CustomClear \/ CustomRoll

CustomSpec == CustomInit /\ [][CustomNext]_vars

\* C24: an inline die whose n faces are labels without a value gives each
\* face its 0-based position: one draw evaluates to a value in 0..n-1.
C24_LabelsCountFromZero ==
    (Rolled /\ call.expr \in {E_labels2, E_labels3} /\ result.success)
    => result.value \in 0..(FacesOf(call.expr) - 1)

\* C24, what the faces are numbered with: one draw of n labels succeeds with
\* the 1-based position of the face drawn
C24_LabelsCountFromOne ==
    (Rolled /\ call.expr \in {E_labels2, E_labels3})
    => /\ result.success
       /\ result.value
            = (rand(call.before.rng.src, 0) % FacesOf(call.expr)) + 1

Registered == call.op = "register"

\* the indices of the definitions of a name, and the earliest definition
DefinitionsOf(registry, name) == {i \in 1..Len(registry) : registry[i].name = name}
Earliest(registry, name) ==
    registry[CHOOSE i \in DefinitionsOf(registry, name) :
               \A j \in DefinitionsOf(registry, name) : i <= j]

\* the face a draw of the die gives: the k-th value of rand() of the call
DrawnFace(die, k) ==
    die.sides[(rand(call.before.rng.src, k) % Len(die.sides)) + 1]

\* a registration with sides returns 0 and appends an entry, whether the
\* name is registered already or not
RegisterAppends ==
    (Registered /\ call.sides # <<>>)
    => /\ result.value = 0
       /\ ctx.custom_dice
            = Append(call.before.custom_dice, [name |-> call.expr, sides |-> call.sides])

\* the lookup of a registered name gives its earliest definition
LookupGivesEarliest ==
    \A name \in DieNames :
      DefinitionsOf(ctx.custom_dice, name) # {}
      => dice_lookup_custom_die(ctx, name) = Earliest(ctx.custom_dice, name)

\* 1dX and 2dY are evaluated with the earliest definition of the name
RollUsesEarliest ==
    /\ (RolledExpr(E_dieX) /\ DefinitionsOf(call.before.custom_dice, <<"X">>) # {})
       => /\ result.success
          /\ result.value = DrawnFace(Earliest(call.before.custom_dice, <<"X">>), 0)
    /\ (RolledExpr(E_dieY) /\ DefinitionsOf(call.before.custom_dice, <<"Y">>) # {})
       => /\ result.success
          /\ result.value = DrawnFace(Earliest(call.before.custom_dice, <<"Y">>), 0)
                            + DrawnFace(Earliest(call.before.custom_dice, <<"Y">>), 1)

\* C30: registering a custom die under a name that is registered already
\* returns 0 and appends a second entry without replacing the first;
\* dice_lookup_custom_die and the evaluation of Nd<name> resolve the name to
\* the earliest registered definition until the registry is cleared.
C30_EarliestDefinitionWins ==
    /\ RegisterAppends
    /\ LookupGivesEarliest
    /\ RollUsesEarliest

\* X was registered twice with different sides and 1dX drew a face of the
\* first definition
C30_Witness ==
    /\ RolledExpr(E_dieX)
    /\ Len(call.before.custom_dice) = 2
    /\ call.before.custom_dice[1] = [name |-> <<"X">>, sides |-> <<1, 2>>]
    /\ call.before.custom_dice[2] = [name |-> <<"X">>, sides |-> <<5, 6>>]
    /\ result.success
    /\ result.value = 2

(***************************************************************************)
(* The grammar of the modifiers.  One dice_parse call on a context just    *)
(* created, or on one that still holds the error of an earlier failure.    *)
(***************************************************************************)
FourD6 == <<"4", "d", "6">>

\* the spellings of a comparator and of a value
Comparators ==
    {<<>>, <<">">>, <<"<">>, <<">", "=">>, <<"<", "=">>, <<"=">>, <<"<", ">">>,
     <<"=", "=">>, <<"!", "=">>, <<">", " ">>, <<"=", " ">>}
Values == {<<>>, <<"3">>}

\* NdS<letter><c><v>
Conditional(letter, c, v) == FourD6 \o <<letter>> \o c \o v
ConditionalExprs ==
    {Conditional(letter, c, v) : letter \in {"s", "r"}, c \in Comparators, v \in Values}

\* what may follow a modifier letter without a count
Followers ==
    {<<>>, <<"+", "1">>, <<" ">>, <<"\t">>, <<"\n">>, <<")">>, <<"*", "2">>}
ModifierLetters == {"k", "h", "l", "s", "r"}

\* the explicit spelling of the default: k1, h1, l1, s=1, r1
ExplicitDefault(letter) == IF letter = "s" THEN <<"=", "1">> ELSE <<"1">>

\* NdS<letter><count><follower>, in parentheses when the follower closes one
Modified(letter, count, follower) ==
    (IF follower = <<")">> THEN <<"(">> ELSE <<>>)
    \o FourD6 \o <<letter>> \o count \o follower
DefaultExprs ==
    {Modified(letter, <<>>, f) : letter \in ModifierLetters, f \in Followers}
ExplicitExprs ==
    {Modified(letter, ExplicitDefault(letter), f) :
       letter \in ModifierLetters, f \in Followers}

\* expressions with a plain integer operand
E_two_plus_three == <<"2", "+", "3">>
LiteralExprs == {E_literal, E_two_plus_three}

GrammarExprs == ConditionalExprs \cup DefaultExprs \cup ExplicitExprs \cup LiteralExprs

\* expressions the parser rejects
BadExprs == {E_open, FourD6 \o <<"s", "!">>}

GrammarCall(op, expr, before, node) ==
    [op |-> op, expr |-> expr, before |-> before, node |-> node]

\* dice_context_create(64 KB, all features)
GrammarInit ==
    /\ ctx = dice_context_create(LargeArena, AllFeatures)
    /\ result = [value |-> 0, success |-> FALSE]
    /\ call = GrammarCall("create", NoExpr, ctx, NullNode)

\* dice_parse(ctx, expression); after a rejected expression of BadExprs, whose
\* error stays in the context, the caller parses once more
GrammarParse ==
    /\ call.op \in {"create", "fail"}
    /\ \E expr \in (IF call.op = "create" THEN GrammarExprs \cup BadExprs
                     ELSE GrammarExprs) :
         \E r \in {dice_parse(ctx, expr)} :
           /\ ctx' = r.ctx
           /\ result' = [value |-> 0, success |-> r.node.type # "NULL"]
           /\ call' = GrammarCall(IF expr \in BadExprs THEN "fail" ELSE "parse",
                                  expr, ctx, r.node)

GrammarNext == GrammarParse

GrammarSpec == GrammarInit /\ [][GrammarNext]_vars

\* the same expression with the other of the letters s and r
Twin(expr) == [expr EXCEPT ![Len(FourD6) + 1] = IF @ = "s" THEN "r" ELSE "s"]

ParsesOK(c, expr) == dice_parse(c, expr).node.type # "NULL"

\* the parse just made is of NdS<letter><c><v>
ParsedConditional == call.op = "parse" /\ call.expr \in ConditionalExprs
ComparatorIs(cs) ==
    \E letter \in {"s", "r"}, c \in cs, v \in Values :
      call.expr = Conditional(letter, c, v)
ValueMissing ==
    \E letter \in {"s", "r"}, c \in Comparators :
      call.expr = Conditional(letter, c, <<>>)

\* C25: NdSr<c><v> parses if and only if NdSs<c><v> parses, whatever the
\* comparator spelling c and the value v; an operator without a value is
\* rejected after both letters.
C25_SameComparatorGrammar ==
    ParsedConditional =>
      /\ result.success <=> ParsesOK(call.before, Twin(call.expr))
      /\ ValueMissing /\ ~ComparatorIs({<<>>}) => ~result.success

\* C25, as the parser behaves: the two letters agree on every spelling but
\* ==, which only r accepts; != is rejected after both; a missing value is
\* rejected after every operator but = (and == after r), where it is 1.
C25_AgreeButDoubleEquals ==
    ParsedConditional =>
      /\ ~ComparatorIs({<<"=", "=">>})
           => (result.success <=> ParsesOK(call.before, Twin(call.expr)))
      /\ ComparatorIs({<<"=", "=">>}) => (result.success <=> call.expr[4] = "r")
      /\ ComparatorIs({<<"!", "=">>}) => ~result.success
      /\ ValueMissing /\ ~ComparatorIs({<<"=", "=">>})
           => (result.success <=> ComparatorIs({<<>>, <<"=">>, <<"=", " ">>}))
      /\ result.success /\ ValueMissing => call.node.selection.comparison_value = 1

\* the parse just made is of a modifier letter without a count, and the
\* explicit spelling of the same expression
ParsedDefault == call.op = "parse" /\ call.expr \in DefaultExprs
Explicit(expr) ==
    CHOOSE e \in ExplicitExprs :
      \E letter \in ModifierLetters, f \in Followers :
        /\ expr = Modified(letter, <<>>, f)
        /\ e = Modified(letter, ExplicitDefault(letter), f)

\* the tree without the text kept for messages
SameSelection(a, b) ==
    /\ a.type # "NULL" /\ b.type # "NULL"
    /\ a = b

FollowerIs(fs) ==
    \E letter \in ModifierLetters, f \in fs : call.expr = Modified(letter, <<>>, f)
LetterIs(ls) ==
    \E letter \in ls, f \in Followers : call.expr = Modified(letter, <<>>, f)

\* C26: a modifier letter without a count parses to the same selection as
\* the letter with its default (k1, h1, l1, s=1, r1), whatever follows the
\* letter: end of input, an operator, a space, a tab, a newline or a closing
\* parenthesis.
C26_DefaultCountAnywhere ==
    ParsedDefault /\ ~call.before.error.has_error =>
      SameSelection(call.node, dice_parse(call.before, Explicit(call.expr)).node)

\* C26, as the parser behaves: the default is taken before end of input, an
\* operator, a space or a tab; before a closing parenthesis the parse fails
\* for every letter, and before a newline for k, h and l.
C26_DefaultBeforeTerminator ==
    ParsedDefault /\ ~call.before.error.has_error =>
      /\ FollowerIs({<<>>, <<"+", "1">>, <<"*", "2">>, <<" ">>, <<"\t">>})
           => SameSelection(call.node, dice_parse(call.before, Explicit(call.expr)).node)
      /\ FollowerIs({<<")">>}) => ~result.success
      /\ FollowerIs({<<"\n">>}) => (result.success <=> LetterIs({"s", "r"}))
      /\ ParsesOK(call.before, Explicit(call.expr))

(***************************************************************************)
(* The error flag an earlier failure left behind                           *)
(***************************************************************************)
\* what dice_parse made of the expression of the call
ParsedOfCall == dice_parse(call.before, call.expr)
FilterRolled ==
    /\ Rolled
    /\ ParsedOfCall.node.type = "DICE_NODE_DICE_OP"
    /\ ParsedOfCall.node.dice_type = "DICE_DICE_FILTER"
LiteralOperand == call.expr \in {E_literal, E_divzero}

\* C28: with the error flag of an earlier failure still set, dice_parse of
\* an expression with a plain integer operand (5, 1d6/0) returns NULL and
\* dice_evaluate of a Filter dice node returns success = false without
\* storing a new error; with the flag clear the same calls succeed.
C28_StaleFlagDecides ==
    (Rolled /\ LargeSession) =>
      /\ LiteralOperand => (ParsedOfCall.node.type = "NULL" <=> call.err0)
      /\ FilterRolled => (result.success <=> ~call.err0)
      /\ (FilterRolled /\ call.err0)
           => ctx.error = call.before.error

\* C28, a Filter node of a standard die (a custom die followed by a modifier
\* leaves a Filter node without sides, which fails with the flag clear too):
\* the flag alone decides
C28_StaleFlagDecidesStandardDice ==
    (Rolled /\ LargeSession) =>
      /\ LiteralOperand => (ParsedOfCall.node.type = "NULL" <=> call.err0)
      /\ (FilterRolled /\ ParsedOfCall.node.sides.type # "NULL")
           => (result.success <=> ~call.err0)
      /\ (FilterRolled /\ ParsedOfCall.node.sides.type = "NULL") => ~result.success
      /\ (FilterRolled /\ call.err0) => ctx.error = call.before.error

\* a Filter node was evaluated, its dice were rolled, and the call failed on
\* the flag an earlier call had left
StaleFilterSeen ==
    /\ FilterRolled /\ LargeSession
    /\ call.err0
    /\ ~result.success
    /\ Len(ctx.trace) > call.trace0
    /\ ctx.error = call.before.error

\* the literal 5 was not parsed because of the flag an earlier call had left
StaleLiteralSeen ==
    /\ RolledExpr(E_literal) /\ LargeSession
    /\ call.err0
    /\ ~result.success
    /\ ctx.error.message = call.before.error.message

\* the same calls with the flag clear
ClearFilterSeen == FilterRolled /\ LargeSession /\ ~call.err0 /\ result.success
ClearLiteralSeen ==
    RolledExpr(E_literal) /\ LargeSession /\ ~call.err0 /\ result.success /\ call.n > 1

(***************************************************************************)
(* The value of a Filter term and its trace                                *)
(***************************************************************************)
SelectedEntries == SelectSeq(NewTrace, LAMBDA e : e.selected)

\* the evaluation of a Filter term returned without an error and no
\* allocation failed
FilterReturned ==
    /\ Returned /\ IsFilter
    /\ result.success /\ ~ctx.error.has_error
    /\ ArenaSufficed

\* C27: a Filter term (keep, conditional, reroll) evaluated without error
\* and with the arena sufficient returns the sum of the results of the trace
\* entries it appended with selected = true; a keep with number N has
\* min(N, count) such entries.
C27_ValueIsSelectedSum ==
    FilterReturned =>
      /\ result.value = Sum(Results(SelectedEntries))
      /\ IsKeep => Len(SelectedEntries) = Min(Term.selection.count, TermCount)

\* a keep of fewer dice than rolled, with a die left out that is not zero
C27_Witness ==
    /\ FilterReturned /\ IsKeep
    /\ TermCount = MaxDice
    /\ Term.selection.count \in 1..(TermCount - 1)
    /\ Len(SelectedEntries) = Term.selection.count
    /\ Len(NewTrace) = TermCount
    /\ result.value = Sum(Results(SelectedEntries))
    /\ result.value < Sum(Results(NewTrace))

\* the same for a conditional and for a reroll that left values out
ConditionalSumSeen ==
    /\ FilterReturned /\ IsConditional
    /\ Len(SelectedEntries) \in 1..(Len(NewTrace) - 1)
    /\ result.value = Sum(Results(SelectedEntries))
RerollSumSeen ==
    /\ FilterReturned /\ IsRerollTerm
    /\ Len(SelectedEntries) \in 1..(Len(NewTrace) - 1)
    /\ result.value = Sum(Results(SelectedEntries))
\* a keep of no dice: nothing selected, the value 0
KeepNoneSeen ==
    /\ FilterReturned /\ IsKeep /\ Term.selection.count = 0
    /\ result.value = 0

(***************************************************************************)
(* Arena usage over the life of a context that is never reset: rolls,      *)
(* dice_clear_trace and dice_clear_error on an arena of SMALL_ARENA_SIZE   *)
(* bytes.  call keeps the context the call found and the arena usage       *)
(* between dice_parse and dice_evaluate.                                   *)
(***************************************************************************)
SMALL_ARENA_SIZE == 1024

\* a clear that also hands the arena back
dice_clear_trace_FreesArena(c) == [c EXCEPT !.trace = <<>>, !.arena_used = 0]

\* dice_clear_trace: memset(&ctx->trace, 0, sizeof(ctx->trace))
dice_clear_trace(c) == [c EXCEPT !.trace = <<>>]

UsageExprs == {E_literal, E_basic, E_k}
UsageSrcs == {[pre |-> <<a>>, head |-> 0, run |-> 0, tail |-> 3] : a \in {0, 5}}

UsageCall(op, expr, before, parsed) ==
    [op |-> op, expr |-> expr, before |-> before, parsed |-> parsed]

\* the contexts a roll can find: the arena used up to some multiple of the
\* alignment, the trace and the error slot clear, a stream installed
UsageLevels == {u \in 0..SMALL_ARENA_SIZE : u % ArenaAlign = 0}
UsageContexts ==
    {[dice_context_create(SMALL_ARENA_SIZE, AllFeatures)
        EXCEPT !.arena_used = u, !.rng = [src |-> src, pos |-> 0]] :
       u \in UsageLevels, src \in UsageSrcs}

\* dice_roll_expression(ctx, expr), tabulated over these contexts: the
\* arena usage dice_parse leaves, and what dice_evaluate returns
UsageOutcome(ast) == [parsed |-> ast.ctx.arena_used, roll |-> EvaluateParsed(ast)]
UsageRolls ==
    [c \in UsageContexts, expr \in UsageExprs |-> UsageOutcome(dice_parse(c, expr))]

\* dice_context_create(SMALL_ARENA_SIZE, DICE_FEATURE_ALL)
UsageInit ==
    /\ ctx = dice_context_create(SMALL_ARENA_SIZE, AllFeatures)
    /\ result = [value |-> 0, success |-> FALSE]
    /\ call = UsageCall("create", NoExpr, ctx, 0)

\* dice_roll_expression(ctx, expr): dice_parse, then dice_evaluate; the
\* caller has cleared the trace and the error slot
UsageRoll ==
    /\ call.op # "roll"
    /\ ctx.trace = <<>> /\ ~ctx.error.has_error
    /\ \E expr \in UsageExprs :
         \E src \in UsageSrcs :
           LET before == [ctx EXCEPT !.rng = [src |-> src, pos |-> 0], !.drawn = <<>>] IN
           \E r \in {UsageRolls[before, expr]} :
             /\ ctx' = [r.roll.ctx EXCEPT !.rng = NoRng]
             /\ result' = [value |-> r.roll.value, success |-> r.roll.success]
             /\ call' = UsageCall("roll", expr, before, r.parsed)

\* dice_clear_trace(ctx)
UsageClearTrace ==
    /\ call.op = "roll"
    /\ ctx' = dice_clear_trace(ctx)
    /\ call' = UsageCall("clear_trace", NoExpr, ctx, ctx.arena_used)
    /\ UNCHANGED result

\* dice_clear_error(ctx)
UsageClearError ==
    /\ call.op = "clear_trace"
    /\ ctx.error.has_error
    /\ ctx' = dice_clear_error(ctx)
    /\ call' = UsageCall("clear_error", NoExpr, ctx, ctx.arena_used)
    /\ UNCHANGED result

UsageNext == UsageRoll \/ UsageClearTrace \/ UsageClearError

UsageSpec == UsageInit /\ [][UsageNext]_vars

\* the caller goes on: the trace is cleared after a roll, the error slot
\* after a failure, and then the next roll is made
UsageLoopSpec ==
    /\ UsageSpec
    /\ WF_vars(UsageRoll) /\ WF_vars(UsageClearTrace) /\ WF_vars(UsageClearError)

\* the call just made left the arena usage where it was
UsageKept == ctx.arena_used = call.before.arena_used
\* a roll failed and the slot holds the error of arena_alloc
ExhaustionFailure ==
    /\ call.op = "roll"
    /\ ~result.success
    /\ ctx.error.has_error /\ ctx.error.code = -1

\* what each call does to arena_used
UsageFrame ==
    /\ call.op \in {"clear_trace", "clear_error"} => UsageKept
    /\ call.op = "roll"
         => /\ call.before.arena_used <= call.parsed
            /\ call.parsed <= ctx.arena_used
            /\ result.success => ctx.arena_used > call.before.arena_used

====
